---------------------------- MODULE Spec2Model ----------------------------
(***************************************************************************)
(* A model of the directed-graph engine (DirectedGraph, graph.ts) and of   *)
(* the successor-function algorithms it is used with (algorithms.ts).      *)
(*                                                                         *)
(* A JavaScript Map or Set iterates in insertion order.  Where the code    *)
(* iterates one, the model keeps a sequence without repetitions; where the *)
(* code only looks keys up (adjacencyList, reverseAdjacencyList,           *)
(* edgeIndex) the model keeps a function whose DOMAIN is the key set, and  *)
(* the insertion-ordered Set stored under a key is again a sequence.       *)
(* Node and edge metadata is an opaque payload that no operation reads; it *)
(* is left out of the records.                                              *)
(***************************************************************************)
EXTENDS Integers, Sequences, FiniteSets, TLC

\* The node identifiers callers pass to the engine.
NodeIds == {"A", "B", "C"}

\* Bound on the number of neighbours a successor lookup returns in all,
\* summed over the nodes.
MaxArcs == 3

\* Bound on the maxDepth a caller passes to findAllPaths.
MaxDepth == 2

\* Bound on the number of stored edges (addEdge calls that succeed).
MaxEdges == 2

VARIABLES
    nodes,                  \* this.nodes: the node ids, in insertion order
    edges,                  \* this.edges: the Edge records, in insertion order
    adjacencyList,          \* this.adjacencyList: node id -> successors
    reverseAdjacencyList,   \* this.reverseAdjacencyList: node id -> predecessors
    edgeIndex,              \* this.edgeIndex: edge key -> edge ids
    nextEdgeId,             \* this.nextEdgeId
    options,                \* this.options
    last,                   \* the last call made on the engine and its outcome
    result,                 \* what the last analysis call returned, if any
    replay,                 \* a newly constructed engine that is given the
                            \* calls made since the last clear(), if any
    lookup,                 \* the successor lookup a caller of algorithms.ts
                            \* passes: node id -> list of neighbours
    query,                  \* the last call of a pure function: its name and
                            \* its arguments, if any
    answer                  \* what that call returned or threw, if any

engine == <<nodes, edges, adjacencyList, reverseAdjacencyList, edgeIndex,
            nextEdgeId, options>>
library == <<lookup, query, answer>>
vars == <<nodes, edges, adjacencyList, reverseAdjacencyList, edgeIndex,
          nextEdgeId, options, last, result, replay, lookup, query, answer>>

-----------------------------------------------------------------------------
(* Insertion-ordered collections *)

Range(s) == {s[i] : i \in 1..Len(s)}

\* Set.prototype.add: a value already present keeps its place.
SetAdd(s, x) == IF x \in Range(s) THEN s ELSE Append(s, x)

\* An absent optional value and a present one.
None == <<>>
Some(x) == <<x>>

\* Map.prototype.set on a Map from key k to value v:
\* a key already present keeps its place and gets the new value.
MapSet(m, k, v) == [x \in (DOMAIN m) \cup {k} |-> IF x = k THEN v ELSE m[x]]

\* The empty Map.
EmptyMap == [x \in {} |-> None]

\* Map.prototype.get(k) ?? [] for a Map of insertion-ordered Sets.
GetOrEmpty(m, k) == IF k \in DOMAIN m THEN m[k] ELSE <<>>

\* this.edges.set(edge.id, edge)
EdgesSet(es, edge) ==
    IF \E i \in 1..Len(es) : es[i].id = edge.id
    THEN [i \in 1..Len(es) |-> IF es[i].id = edge.id THEN edge ELSE es[i]]
    ELSE Append(es, edge)

-----------------------------------------------------------------------------
(* The engine object *)

this == [nodes |-> nodes, edges |-> edges, adjacencyList |-> adjacencyList,
         reverseAdjacencyList |-> reverseAdjacencyList,
         edgeIndex |-> edgeIndex, nextEdgeId |-> nextEdgeId,
         options |-> options]

GraphOptions == [allowSelfLoops : BOOLEAN, allowMultiEdges : BOOLEAN,
                 validateOnConstruction : BOOLEAN]

\* new DirectedGraph(opts)
constructor(opts) ==
    [nodes |-> <<>>, edges |-> <<>>, adjacencyList |-> EmptyMap,
     reverseAdjacencyList |-> EmptyMap, edgeIndex |-> EmptyMap,
     nextEdgeId |-> 0, options |-> opts]

\* An operation's outcome: the engine it leaves, "ok" or the error thrown,
\* and the value returned ("" for void).
Return(g, value) == [g |-> g, status |-> "ok", ret |-> value]
Throw(g, error) == [g |-> g, status |-> error, ret |-> ""]

hasNode(g, nodeId) == nodeId \in Range(g.nodes)

\* An encoding that joins the two ids without their lengths.
getEdgeKeyNoLengths(from, to) == from \o "|" \o to

\* `${from.length}:${from}|${to.length}:${to}`
getEdgeKey(from, to) ==
    ToString(Len(from)) \o ":" \o from \o "|" \o ToString(Len(to)) \o ":" \o to

hasEdge(g, from, to) ==
    LET key == getEdgeKey(from, to)
    IN  key \in DOMAIN g.edgeIndex /\ Len(g.edgeIndex[key]) > 0

getSuccessors(g, nodeId) == GetOrEmpty(g.adjacencyList, nodeId)

getPredecessors(g, nodeId) == GetOrEmpty(g.reverseAdjacencyList, nodeId)

\* getSuccessorsStrict / getPredecessorsStrict: the error of an unknown node.
UnknownNode(nodeId) == "Unknown node: " \o nodeId

Found(value) == [status |-> "ok", value |-> Some(value)]

getSuccessorsStrict(g, nodeId) ==
    IF ~hasNode(g, nodeId)
    THEN [status |-> UnknownNode(nodeId), value |-> None]
    ELSE Found(g.adjacencyList[nodeId])

getPredecessorsStrict(g, nodeId) ==
    IF ~hasNode(g, nodeId)
    THEN [status |-> UnknownNode(nodeId), value |-> None]
    ELSE Found(g.reverseAdjacencyList[nodeId])

getEdgeIdsBetween(g, from, to) == GetOrEmpty(g.edgeIndex, getEdgeKey(from, to))

\* A validateEdgeInvariants that looks the edge up in the wrong direction.
validateEdgeInvariantsSwapped(g, from, to) ==
    IF ~(to \in DOMAIN g.adjacencyList /\ from \in Range(g.adjacencyList[to]))
    THEN "Invariant broken: missing in adjacencyList"
    ELSE IF ~(from \in DOMAIN g.reverseAdjacencyList
              /\ to \in Range(g.reverseAdjacencyList[from]))
    THEN "Invariant broken: missing in reverseAdjacencyList"
    ELSE "ok"

\* The error validateEdgeInvariants throws, or "ok".
validateEdgeInvariants(g, from, to) ==
    IF ~(from \in DOMAIN g.adjacencyList /\ to \in Range(g.adjacencyList[from]))
    THEN "Invariant broken: missing in adjacencyList"
    ELSE IF ~(to \in DOMAIN g.reverseAdjacencyList
              /\ from \in Range(g.reverseAdjacencyList[to]))
    THEN "Invariant broken: missing in reverseAdjacencyList"
    ELSE "ok"

addNode(g, id) ==
    IF hasNode(g, id)
    THEN Throw(g, "Node already exists")
    ELSE Return([g EXCEPT !.nodes = Append(@, id),
                          !.adjacencyList = MapSet(@, id, <<>>),
                          !.reverseAdjacencyList = MapSet(@, id, <<>>)], "")

\* An addEdge that does not refuse a second edge for a pair.
addEdgeRefusalNoDuplicateCheck(g, from, to) ==
    IF ~hasNode(g, from) THEN "Source node does not exist"
    ELSE IF ~hasNode(g, to) THEN "Target node does not exist"
    ELSE IF ~g.options.allowSelfLoops /\ from = to THEN "Self-loop not allowed"
    ELSE "ok"

\* The usage error addEdge throws before it changes anything, or "ok".
addEdgeRefusal(g, from, to) ==
    IF ~hasNode(g, from) THEN "Source node does not exist"
    ELSE IF ~hasNode(g, to) THEN "Target node does not exist"
    ELSE IF ~g.options.allowSelfLoops /\ from = to THEN "Self-loop not allowed"
    ELSE IF ~g.options.allowMultiEdges
            /\ getEdgeKey(from, to) \in DOMAIN g.edgeIndex
    THEN "Edge already exists"
    ELSE "ok"

\* An addEdge that leaves the reverse index alone.
linkAdjacencyForwardOnly(g, from, to) ==
    [g EXCEPT !.adjacencyList =
        IF from \in DOMAIN @ THEN [@ EXCEPT ![from] = SetAdd(@, to)] ELSE @]

\* fromAdj.add(to) and toRev.add(from), each if the bucket exists
linkAdjacency(g, from, to) ==
    [g EXCEPT !.adjacencyList =
                  IF from \in DOMAIN @ THEN [@ EXCEPT ![from] = SetAdd(@, to)]
                  ELSE @,
              !.reverseAdjacencyList =
                  IF to \in DOMAIN @ THEN [@ EXCEPT ![to] = SetAdd(@, from)]
                  ELSE @]

\* An edge id that never gets the counter suffix.
edgeIdOfNoSuffix(g, edgeKey) == edgeKey

\* An edge id that gets the suffix only when the pair has an edge already.
edgeIdOfSuffixForParallelOnly(g, edgeKey) ==
    IF g.options.allowMultiEdges /\ edgeKey \in DOMAIN g.edgeIndex
    THEN edgeKey \o "#" \o ToString(g.nextEdgeId)
    ELSE edgeKey

\* allowMultiEdges ? `${edgeKey}#${this.nextEdgeId++}` : edgeKey
\* (the value; addEdge does the increment)
edgeIdOf(g, edgeKey) ==
    IF g.options.allowMultiEdges
    THEN edgeKey \o "#" \o ToString(g.nextEdgeId)
    ELSE edgeKey

addEdge(g, from, to) ==
    LET refusal == addEdgeRefusal(g, from, to) IN
    IF refusal # "ok" THEN Throw(g, refusal)
    ELSE
    LET edgeKey == getEdgeKey(from, to)
        edgeId == edgeIdOf(g, edgeKey)
        counter == IF g.options.allowMultiEdges
                   THEN g.nextEdgeId + 1 ELSE g.nextEdgeId
        edge == [id |-> edgeId, from |-> from, to |-> to]
        bucket == GetOrEmpty(g.edgeIndex, edgeKey)
        g1 == [g EXCEPT !.edges = EdgesSet(@, edge),
                        !.edgeIndex = MapSet(@, edgeKey, SetAdd(bucket, edgeId)),
                        !.nextEdgeId = counter]
        g2 == linkAdjacency(g1, from, to)
        broken == IF g.options.validateOnConstruction
                  THEN validateEdgeInvariants(g2, from, to) ELSE "ok"
    IN  IF broken # "ok" THEN Throw(g2, broken) ELSE Return(g2, edgeId)

\* A clear that does not reset the edge-id counter.
clearKeepsEdgeCounter(g) ==
    Return([g EXCEPT !.nodes = <<>>, !.edges = <<>>,
                     !.adjacencyList = EmptyMap,
                     !.reverseAdjacencyList = EmptyMap,
                     !.edgeIndex = EmptyMap], "")

clear(g) ==
    Return([g EXCEPT !.nodes = <<>>, !.edges = <<>>,
                     !.adjacencyList = EmptyMap,
                     !.reverseAdjacencyList = EmptyMap,
                     !.edgeIndex = EmptyMap,
                     !.nextEdgeId = 0], "")

-----------------------------------------------------------------------------
(* findSCCs: Tarjan's algorithm *)

\* The traversal state shared by the calls of strongConnect.
TarjanStart ==
    [sccs |-> <<>>, index |-> EmptyMap, lowlink |-> EmptyMap,
     onStack |-> {}, stack |-> <<>>, currentIndex |-> 0]

Min(a, b) == IF a < b THEN a ELSE b

RECURSIVE popUntil(_, _, _)
\* do { w = stack.pop(); onStack.delete(w); sccNodes.push(w) } while (w !== nodeId)
popUntil(st, nodeId, sccNodes) ==
    LET w == st.stack[Len(st.stack)]
        st2 == [st EXCEPT !.stack = SubSeq(@, 1, Len(@) - 1),
                          !.onStack = @ \ {w}]
        popped == Append(sccNodes, w)
    IN  IF w # nodeId THEN popUntil(st2, nodeId, popped)
        ELSE [st |-> st2, sccNodes |-> popped]

RECURSIVE strongConnect(_, _, _)
RECURSIVE strongConnectSuccessors(_, _, _, _, _)

RECURSIVE strongConnectSuccessorsNoOnStack(_, _, _, _, _)
\* A strongConnect whose loop leaves out the branch for a successor that is
\* on the stack.
strongConnectSuccessorsNoOnStack(g, st, nodeId, successors, i) ==
    IF i > Len(successors) THEN st
    ELSE
    LET successor == successors[i] IN
    IF successor \notin DOMAIN st.index
    THEN LET st2 == strongConnect(g, st, successor)
             st3 == [st2 EXCEPT !.lowlink[nodeId] =
                        Min(st2.lowlink[nodeId], st2.lowlink[successor])]
         IN  strongConnectSuccessorsNoOnStack(g, st3, nodeId, successors, i + 1)
    ELSE strongConnectSuccessorsNoOnStack(g, st, nodeId, successors, i + 1)

\* for (const successor of successors) { ... }, from position i on
strongConnectSuccessors(g, st, nodeId, successors, i) ==
    IF i > Len(successors) THEN st
    ELSE
    LET successor == successors[i] IN
    IF successor \notin DOMAIN st.index
    THEN LET st2 == strongConnect(g, st, successor)
             st3 == [st2 EXCEPT !.lowlink[nodeId] =
                        Min(st2.lowlink[nodeId], st2.lowlink[successor])]
         IN  strongConnectSuccessors(g, st3, nodeId, successors, i + 1)
    ELSE IF successor \in st.onStack
    THEN LET st2 == [st EXCEPT !.lowlink[nodeId] =
                        Min(st.lowlink[nodeId], st.index[successor])]
         IN  strongConnectSuccessors(g, st2, nodeId, successors, i + 1)
    ELSE strongConnectSuccessors(g, st, nodeId, successors, i + 1)

strongConnect(g, st, nodeId) ==
    LET st1 == [st EXCEPT !.index = MapSet(@, nodeId, st.currentIndex),
                          !.lowlink = MapSet(@, nodeId, st.currentIndex),
                          !.currentIndex = @ + 1,
                          !.stack = Append(@, nodeId),
                          !.onStack = @ \cup {nodeId}]
        st2 == strongConnectSuccessors(g, st1, nodeId,
                                       getSuccessors(g, nodeId), 1)
    IN  IF st2.lowlink[nodeId] = st2.index[nodeId]
        THEN LET p == popUntil(st2, nodeId, <<>>)
                 scc == [id |-> Len(st2.sccs), nodes |-> p.sccNodes,
                         isAcyclic |-> Len(p.sccNodes) = 1
                                       /\ ~hasEdge(g, nodeId, nodeId)]
             IN  [p.st EXCEPT !.sccs = Append(@, scc)]
        ELSE st2

RECURSIVE findSCCsFrom(_, _, _)
\* for (const nodeId of this.nodes.keys()) if (!index.has(nodeId)) ...
findSCCsFrom(g, st, i) ==
    IF i > Len(g.nodes) THEN st
    ELSE IF g.nodes[i] \notin DOMAIN st.index
    THEN findSCCsFrom(g, strongConnect(g, st, g.nodes[i]), i + 1)
    ELSE findSCCsFrom(g, st, i + 1)

findSCCs(g) == findSCCsFrom(g, TarjanStart, 1).sccs

-----------------------------------------------------------------------------
(* topologicalSort: Kahn's algorithm *)

\* (m.get(k) ?? 0) for a Map of numbers
GetOrZero(m, k) == IF k \in DOMAIN m THEN m[k] ELSE 0

RECURSIVE SelectSeq2(_, _, _)
\* The entries of s, in order, whose value under the Map m is 0.
SelectSeq2(s, m, i) ==
    IF i > Len(s) THEN <<>>
    ELSE (IF m[s[i]] = 0 THEN <<s[i]>> ELSE <<>>) \o SelectSeq2(s, m, i + 1)

RECURSIVE kahnRelax(_, _, _)
\* for (const v of adj) { nd = (inDegree.get(v) ?? 0) - 1; ... }
\* k is [inDegree, queue]; adj is what is left of the successors to visit.
kahnRelax(k, adj, i) ==
    IF i > Len(adj) THEN k
    ELSE LET v == adj[i]
             nd == GetOrZero(k.inDegree, v) - 1
             k2 == [inDegree |-> MapSet(k.inDegree, v, nd),
                    queue |-> IF nd = 0 THEN Append(k.queue, v) ELSE k.queue]
         IN  kahnRelax(k2, adj, i + 1)

RECURSIVE kahnLoop(_, _, _)
\* while (head < queue.length) { ... }; out is the order so far.
kahnLoop(adjOf, k, out) ==
    IF ~(out.head < Len(k.queue)) THEN out.result
    ELSE LET u == k.queue[out.head + 1]
             k2 == kahnRelax(k, GetOrEmpty(adjOf, u), 1)
         IN  kahnLoop(adjOf, k2, [head |-> out.head + 1,
                                  result |-> Append(out.result, u)])

\* A topologicalSort that reads the in-degrees off the forward index.
topologicalSortForwardDegree(g) ==
    LET inDegree == [n \in Range(g.nodes) |->
                        Len(GetOrEmpty(g.adjacencyList, n))]
        queue == SelectSeq2(g.nodes, inDegree, 1)
        res == kahnLoop(g.adjacencyList,
                        [inDegree |-> inDegree, queue |-> queue],
                        [head |-> 0, result |-> <<>>])
    IN  IF Len(res) = Len(g.nodes) THEN Some(res) ELSE None

\* A topologicalSort that returns its result without comparing its length
\* with the number of nodes.
topologicalSortNoCoverCheck(g) ==
    LET inDegree == [n \in Range(g.nodes) |->
                        Len(GetOrEmpty(g.reverseAdjacencyList, n))]
        queue == SelectSeq2(g.nodes, inDegree, 1)
    IN  Some(kahnLoop(g.adjacencyList,
                      [inDegree |-> inDegree, queue |-> queue],
                      [head |-> 0, result |-> <<>>]))

\* null is None, an order is Some(order).
topologicalSort(g) ==
    LET inDegree == [n \in Range(g.nodes) |->
                        Len(GetOrEmpty(g.reverseAdjacencyList, n))]
        queue == SelectSeq2(g.nodes, inDegree, 1)
        res == kahnLoop(g.adjacencyList,
                        [inDegree |-> inDegree, queue |-> queue],
                        [head |-> 0, result |-> <<>>])
    IN  IF Len(res) = Len(g.nodes) THEN Some(res) ELSE None

-----------------------------------------------------------------------------
(* classifyEdges: depth-first traversal with timestamps *)

ClassifyStart ==
    [type |-> EmptyMap, disc |-> EmptyMap, fini |-> EmptyMap,
     parent |-> EmptyMap, onStack |-> {}, time |-> 0]

\* a < b for two numbers read from a Map with get(): an absent one is
\* undefined, and a comparison with undefined is false.
LessDefined(m, a, b) == a \in DOMAIN m /\ b \in DOMAIN m /\ m[a] < m[b]

\* (fini.get(a) ?? Infinity) < (fini.get(b) ?? Infinity)
LessOrInfinity(m, a, b) ==
    /\ a \in DOMAIN m
    /\ (b \in DOMAIN m => m[a] < m[b])

\* parent.get(n) ?? null, null being None
ParentOf(parent, n) == IF n \in DOMAIN parent THEN parent[n] ELSE None

RECURSIVE hasAncestor(_, _, _)
\* while (ancestor !== null) { if (ancestor === u) ...; ancestor = parent... }
hasAncestor(parent, ancestor, u) ==
    IF ancestor = None THEN FALSE
    ELSE IF ancestor[1] = u THEN TRUE
    ELSE hasAncestor(parent, ParentOf(parent, ancestor[1]), u)

classifyNonTreeIgnoresStack(cs, u, v, eid) ==
    IF LessDefined(cs.disc, u, v) /\ LessOrInfinity(cs.fini, v, u)
    THEN [cs EXCEPT !.type = MapSet(@, eid, "forward")]
    ELSE LET isDescendant == hasAncestor(cs.parent, ParentOf(cs.parent, v), u)
         IN  [cs EXCEPT !.type =
                 MapSet(@, eid, IF isDescendant THEN "forward" ELSE "cross")]

classifyNonTree(cs, u, v, eid) ==
    IF v \in cs.onStack
    THEN [cs EXCEPT !.type = MapSet(@, eid, "back")]
    ELSE IF LessDefined(cs.disc, u, v) /\ LessOrInfinity(cs.fini, v, u)
    THEN [cs EXCEPT !.type = MapSet(@, eid, "forward")]
    ELSE LET isDescendant == hasAncestor(cs.parent, ParentOf(cs.parent, v), u)
         IN  [cs EXCEPT !.type =
                 MapSet(@, eid, IF isDescendant THEN "forward" ELSE "cross")]

RECURSIVE classifyAll(_, _, _, _, _)
\* for (const eid of eids) classifyNonTree(u, v, eid), from position i on
classifyAll(cs, u, v, eids, i) ==
    IF i > Len(eids) THEN cs
    ELSE classifyAll(classifyNonTree(cs, u, v, eids[i]), u, v, eids, i + 1)

RECURSIVE dfs(_, _, _)
RECURSIVE dfsSuccessors(_, _, _, _, _)

\* for (const v of this.adjacencyList.get(u) ?? []) { ... }, from position i on
dfsSuccessors(g, cs, u, adj, i) ==
    IF i > Len(adj) THEN cs
    ELSE
    LET v == adj[i]
        eids == getEdgeIdsBetween(g, u, v)
    IN  IF Len(eids) = 0 THEN dfsSuccessors(g, cs, u, adj, i + 1)
        ELSE IF v \notin DOMAIN cs.disc
        THEN LET cs1 == [cs EXCEPT !.type = MapSet(@, eids[1], "tree"),
                                   !.parent = MapSet(@, v, Some(u))]
                 cs2 == dfs(g, cs1, v)
                 cs3 == classifyAll(cs2, u, v, eids, 2)
             IN  dfsSuccessors(g, cs3, u, adj, i + 1)
        ELSE dfsSuccessors(g, classifyAll(cs, u, v, eids, 1), u, adj, i + 1)

\* A dfs that takes the node off the stack before it examines its successors.
dfsLeavesStackEarly(g, cs, u) ==
    LET cs1 == [cs EXCEPT !.disc = MapSet(@, u, cs.time),
                          !.time = @ + 1,
                          !.parent = MapSet(@, u, ParentOf(cs.parent, u))]
        cs2 == dfsSuccessors(g, cs1, u, GetOrEmpty(g.adjacencyList, u), 1)
    IN  [cs2 EXCEPT !.fini = MapSet(@, u, cs2.time),
                    !.time = @ + 1]

dfs(g, cs, u) ==
    LET cs1 == [cs EXCEPT !.disc = MapSet(@, u, cs.time),
                          !.time = @ + 1,
                          !.onStack = @ \cup {u},
                          !.parent = MapSet(@, u, ParentOf(cs.parent, u))]
        cs2 == dfsSuccessors(g, cs1, u, GetOrEmpty(g.adjacencyList, u), 1)
    IN  [cs2 EXCEPT !.onStack = @ \ {u},
                    !.fini = MapSet(@, u, cs2.time),
                    !.time = @ + 1]

RECURSIVE classifyFrom(_, _, _)
\* for (const u of this.nodes.keys()) if (!disc.has(u)) dfs(u)
classifyFrom(g, cs, i) ==
    IF i > Len(g.nodes) THEN cs
    ELSE IF g.nodes[i] \notin DOMAIN cs.disc
    THEN classifyFrom(g, dfs(g, cs, g.nodes[i]), i + 1)
    ELSE classifyFrom(g, cs, i + 1)

RECURSIVE reclassifyCross(_, _, _)
\* for (const edge of this.edges.values())
\*   if (type.get(edge.id) === 'cross') classifyNonTree(...)
reclassifyCross(g, cs, i) ==
    IF i > Len(g.edges) THEN cs
    ELSE LET edge == g.edges[i] IN
         IF edge.id \in DOMAIN cs.type /\ cs.type[edge.id] = "cross"
         THEN reclassifyCross(g, classifyNonTree(cs, edge.from, edge.to, edge.id),
                              i + 1)
         ELSE reclassifyCross(g, cs, i + 1)

\* The Map from edge id to edge type.
classifyEdges(g) == reclassifyCross(g, classifyFrom(g, ClassifyStart, 1), 1).type

-----------------------------------------------------------------------------
(* findCycles *)

\* The optional argument { sccs?, edgeClassifications? } of findCycles and
\* buildCondensationGraph; NoPrecomputed is the call without it.
NoPrecomputed == [sccs |-> None, edgeClassifications |-> None]
Precomputed(sccs, cls) == [sccs |-> Some(sccs), edgeClassifications |-> Some(cls)]

\* this.edges.get(edgeId), None when absent
EdgesGet(g, edgeId) ==
    LET at == {i \in 1..Len(g.edges) : g.edges[i].id = edgeId}
    IN  IF at = {} THEN None ELSE Some(g.edges[CHOOSE i \in at : TRUE])

RECURSIVE cycleEdgeIds(_, _, _, _)
\* for (const edgeId of edgeIds) { ... }: c is [edges, backEdges]
cycleEdgeIds(g, cls, c, edgeIds) ==
    IF edgeIds = <<>> THEN c
    ELSE LET edge == EdgesGet(g, Head(edgeIds)) IN
         IF edge = None THEN cycleEdgeIds(g, cls, c, Tail(edgeIds))
         ELSE LET id == edge[1].id
                  isBack == id \in DOMAIN cls /\ cls[id] = "back"
              IN  cycleEdgeIds(g, cls,
                      [edges |-> Append(c.edges, id),
                       backEdges |-> IF isBack THEN Append(c.backEdges, id)
                                     ELSE c.backEdges],
                      Tail(edgeIds))

RECURSIVE cycleSuccessorsFirstEdgeOnly(_, _, _, _, _, _)
\* A findCycles that takes one edge per pair of nodes.
cycleSuccessorsFirstEdgeOnly(g, cls, scc, c, nodeId, successors) ==
    IF successors = <<>> THEN c
    ELSE LET successor == Head(successors)
             eids == getEdgeIdsBetween(g, nodeId, successor)
             c2 == IF successor \in Range(scc.nodes)
                   THEN cycleEdgeIds(g, cls, c, SubSeq(eids, 1, 1))
                   ELSE c
         IN  cycleSuccessorsFirstEdgeOnly(g, cls, scc, c2, nodeId,
                                          Tail(successors))

RECURSIVE cycleSuccessors(_, _, _, _, _, _)
\* for (const successor of this.getSuccessors(nodeId)) { ... }
cycleSuccessors(g, cls, scc, c, nodeId, successors) ==
    IF successors = <<>> THEN c
    ELSE LET successor == Head(successors)
             c2 == IF successor \in Range(scc.nodes)
                   THEN cycleEdgeIds(g, cls, c,
                                     getEdgeIdsBetween(g, nodeId, successor))
                   ELSE c
         IN  cycleSuccessors(g, cls, scc, c2, nodeId, Tail(successors))

RECURSIVE cycleNodes(_, _, _, _, _)
\* for (const nodeId of scc.nodes) { ... }, from position i on
cycleNodes(g, cls, scc, c, i) ==
    IF i > Len(scc.nodes) THEN c
    ELSE cycleNodes(g, cls, scc,
                    cycleSuccessors(g, cls, scc, c, scc.nodes[i],
                                    getSuccessors(g, scc.nodes[i])),
                    i + 1)

RECURSIVE cyclesOfEverySCC(_, _, _, _)
\* A loop that does not skip the acyclic components.
cyclesOfEverySCC(g, cls, sccs, i) ==
    IF i > Len(sccs) THEN <<>>
    ELSE LET c == cycleNodes(g, cls, sccs[i],
                             [edges |-> <<>>, backEdges |-> <<>>], 1)
         IN  <<[nodes |-> sccs[i].nodes, edges |-> c.edges,
                backEdges |-> c.backEdges]>>
               \o cyclesOfEverySCC(g, cls, sccs, i + 1)

RECURSIVE cyclesOf(_, _, _, _)
\* for (const scc of sccs) { ... }, from position i on
cyclesOf(g, cls, sccs, i) ==
    IF i > Len(sccs) THEN <<>>
    ELSE IF sccs[i].isAcyclic THEN cyclesOf(g, cls, sccs, i + 1)
    ELSE LET c == cycleNodes(g, cls, sccs[i],
                             [edges |-> <<>>, backEdges |-> <<>>], 1)
         IN  <<[nodes |-> sccs[i].nodes, edges |-> c.edges,
                backEdges |-> c.backEdges]>> \o cyclesOf(g, cls, sccs, i + 1)

findCycles(g, precomputed) ==
    LET edgeClassification ==
            IF precomputed.edgeClassifications = None THEN classifyEdges(g)
            ELSE precomputed.edgeClassifications[1]
        sccs == IF precomputed.sccs = None THEN findSCCs(g)
                ELSE precomputed.sccs[1]
    IN  cyclesOf(g, edgeClassification, sccs, 1)

-----------------------------------------------------------------------------
(* buildCondensationGraph *)

RECURSIVE componentMapOf(_, _, _)
\* for (const scc of sccs) for (const n of scc.nodes) componentMap.set(n, scc.id)
componentMapOf(sccs, m, i) ==
    IF i > Len(sccs) THEN m
    ELSE componentMapOf(sccs,
             [n \in (DOMAIN m) \cup Range(sccs[i].nodes) |->
                 IF n \in Range(sccs[i].nodes) THEN sccs[i].id ELSE m[n]],
             i + 1)

\* sccs.map(scc => ({ id, members, isLoop, entryEdges: [], ... }))
componentsOf(sccs) ==
    [i \in 1..Len(sccs) |->
        [id |-> sccs[i].id, members |-> sccs[i].nodes,
         isLoop |-> ~sccs[i].isAcyclic,
         entryEdges |-> <<>>, exitEdges |-> <<>>,
         internalEdges |-> <<>>, feedbackEdges |-> <<>>]]

\* componentById.get(id): the position in components of the component
\* that was set last under id; 0 when there is none.
componentById(components, id) ==
    LET at == {i \in 1..Len(components) : components[i].id = id}
    IN  IF at = {} THEN 0 ELSE CHOOSE i \in at : \A j \in at : j <= i

RECURSIVE componentIds(_, _)
\* The keys of compAdj and indeg, in insertion order.
componentIds(components, i) ==
    IF i = 0 THEN <<>>
    ELSE SetAdd(componentIds(components, i - 1), components[i].id)

\* A component arc that is counted once for every parallel edge.
linkComponentsNoDedup(b, cf, ct) ==
    [b EXCEPT !.compAdj[cf] = SetAdd(@, ct),
              !.indeg[ct] = @ + 1]

\* if (!compAdj.get(cf)!.has(ct)) { compAdj.get(cf)!.add(ct); indeg[ct]++ }
linkComponents(b, cf, ct) ==
    IF ct \in Range(b.compAdj[cf]) THEN b
    ELSE [b EXCEPT !.compAdj[cf] = Append(@, ct),
                   !.indeg[ct] = @ + 1]

RECURSIVE routeEdgesKeepsOnePerArc(_, _, _, _, _)
\* A pass that leaves a further parallel edge between two components out of
\* the exit and entry lists.
routeEdgesKeepsOnePerArc(g, componentMap, edgeClass, b, i) ==
    IF i > Len(g.edges) \/ b.error # "ok" THEN b
    ELSE
    LET edge == g.edges[i] IN
    IF edge.from \notin DOMAIN componentMap \/ edge.to \notin DOMAIN componentMap
    THEN [b EXCEPT !.error =
             "buildCondensationGraph: encountered edge missing component mapping"]
    ELSE
    LET cf == componentMap[edge.from]
        ct == componentMap[edge.to]
        fromComponent == componentById(b.components, cf)
        toComponent == componentById(b.components, ct)
    IN  IF fromComponent = 0 \/ toComponent = 0
        THEN [b EXCEPT !.error = "buildCondensationGraph: component lookup failed"]
        ELSE IF cf = ct
        THEN LET isBack == edge.id \in DOMAIN edgeClass
                           /\ edgeClass[edge.id] = "back"
                 b2 == [b EXCEPT
                          !.components[fromComponent].internalEdges =
                              Append(@, edge),
                          !.components[fromComponent].feedbackEdges =
                              IF isBack THEN Append(@, edge) ELSE @]
             IN  routeEdgesKeepsOnePerArc(g, componentMap, edgeClass, b2, i + 1)
        ELSE IF ct \in Range(b.compAdj[cf])
        THEN routeEdgesKeepsOnePerArc(g, componentMap, edgeClass, b, i + 1)
        ELSE LET b1 == [b EXCEPT
                          !.components[fromComponent].exitEdges = Append(@, edge)]
                 b2 == [b1 EXCEPT
                          !.components[toComponent].entryEdges = Append(@, edge)]
             IN  routeEdgesKeepsOnePerArc(g, componentMap, edgeClass,
                                          linkComponents(b2, cf, ct), i + 1)

RECURSIVE routeEdges(_, _, _, _, _)
\* for (const edge of this.edges.values()) { ... }, from position i on;
\* b is [components, compAdj, indeg, error].
routeEdges(g, componentMap, edgeClass, b, i) ==
    IF i > Len(g.edges) \/ b.error # "ok" THEN b
    ELSE
    LET edge == g.edges[i] IN
    IF edge.from \notin DOMAIN componentMap \/ edge.to \notin DOMAIN componentMap
    THEN [b EXCEPT !.error =
             "buildCondensationGraph: encountered edge missing component mapping"]
    ELSE
    LET cf == componentMap[edge.from]
        ct == componentMap[edge.to]
        fromComponent == componentById(b.components, cf)
        toComponent == componentById(b.components, ct)
    IN  IF fromComponent = 0 \/ toComponent = 0
        THEN [b EXCEPT !.error = "buildCondensationGraph: component lookup failed"]
        ELSE IF cf = ct
        THEN LET isBack == edge.id \in DOMAIN edgeClass
                           /\ edgeClass[edge.id] = "back"
                 b2 == [b EXCEPT
                          !.components[fromComponent].internalEdges =
                              Append(@, edge),
                          !.components[fromComponent].feedbackEdges =
                              IF isBack THEN Append(@, edge) ELSE @]
             IN  routeEdges(g, componentMap, edgeClass, b2, i + 1)
        ELSE LET b1 == [b EXCEPT
                          !.components[fromComponent].exitEdges = Append(@, edge)]
                 b2 == [b1 EXCEPT
                          !.components[toComponent].entryEdges = Append(@, edge)]
             IN  routeEdges(g, componentMap, edgeClass,
                            linkComponents(b2, cf, ct), i + 1)

RECURSIVE compKahnRelax(_, _, _)
\* for (const nb of compAdj.get(current)!) { ... }, from position i on
compKahnRelax(k, adj, i) ==
    IF i > Len(adj) THEN k
    ELSE LET nb == adj[i]
             nd == GetOrZero(k.indeg, nb) - 1
         IN  compKahnRelax([indeg |-> MapSet(k.indeg, nb, nd),
                            q |-> IF nd = 0 THEN Append(k.q, nb) ELSE k.q],
                           adj, i + 1)

RECURSIVE compKahnLoop(_, _, _, _)
\* while (head < q.length) { ... }
compKahnLoop(compAdj, k, head, order) ==
    IF ~(head < Len(k.q)) THEN order
    ELSE LET current == k.q[head + 1]
         IN  compKahnLoop(compAdj, compKahnRelax(k, compAdj[current], 1),
                          head + 1, Append(order, current))

\* The outcome: "ok" and the CondensationGraph, or the error thrown.
buildCondensationGraph(g, precomputed) ==
    LET sccs == IF precomputed.sccs = None THEN findSCCs(g)
                ELSE precomputed.sccs[1]
        edgeClass == IF precomputed.edgeClassifications = None
                     THEN classifyEdges(g)
                     ELSE precomputed.edgeClassifications[1]
        componentMap == componentMapOf(sccs, EmptyMap, 1)
        components == componentsOf(sccs)
        ids == componentIds(components, Len(components))
        b == routeEdges(g, componentMap, edgeClass,
                        [components |-> components,
                         compAdj |-> [c \in Range(ids) |-> <<>>],
                         indeg |-> [c \in Range(ids) |-> 0],
                         error |-> "ok"], 1)
        order == compKahnLoop(b.compAdj,
                              [indeg |-> b.indeg,
                               q |-> SelectSeq2(ids, b.indeg, 1)],
                              0, <<>>)
    IN  IF b.error # "ok" THEN [status |-> b.error, value |-> None]
        ELSE [status |-> "ok",
              value |-> Some([components |-> b.components,
                              componentMap |-> componentMap,
                              topologicalOrder |-> order])]

-----------------------------------------------------------------------------
(* analyze *)

\* An analyze that takes the engine for acyclic when every component has
\* one node.
analyzeAcyclicBySCCCount(g) ==
    LET sccs == findSCCs(g)
        edgeClassifications == classifyEdges(g)
        cycles == findCycles(g, Precomputed(sccs, edgeClassifications))
        topologicalOrder == topologicalSort(g)
        isAcyclic == Len(sccs) = Len(g.nodes)
        condensationGraph ==
            buildCondensationGraph(g, Precomputed(sccs, edgeClassifications))
    IN  IF condensationGraph.status # "ok"
        THEN [status |-> condensationGraph.status, value |-> None]
        ELSE [status |-> "ok",
              value |-> Some([nodeCount |-> Len(g.nodes),
                              edgeCount |-> Len(g.edges),
                              isAcyclic |-> isAcyclic,
                              sccs |-> sccs,
                              cycles |-> cycles,
                              topologicalOrder |-> topologicalOrder,
                              condensationGraph |-> condensationGraph.value[1],
                              edgeClassifications |-> edgeClassifications])]

\* The outcome: "ok" and the GraphAnalysis, or the error thrown.
analyze(g) ==
    LET sccs == findSCCs(g)
        edgeClassifications == classifyEdges(g)
        cycles == findCycles(g, Precomputed(sccs, edgeClassifications))
        topologicalOrder == topologicalSort(g)
        isAcyclic == topologicalOrder # None
        condensationGraph ==
            buildCondensationGraph(g, Precomputed(sccs, edgeClassifications))
    IN  IF condensationGraph.status # "ok"
        THEN [status |-> condensationGraph.status, value |-> None]
        ELSE [status |-> "ok",
              value |-> Some([nodeCount |-> Len(g.nodes),
                              edgeCount |-> Len(g.edges),
                              isAcyclic |-> isAcyclic,
                              sccs |-> sccs,
                              cycles |-> cycles,
                              topologicalOrder |-> topologicalOrder,
                              condensationGraph |-> condensationGraph.value[1],
                              edgeClassifications |-> edgeClassifications])]

-----------------------------------------------------------------------------
(* algorithms.ts: functions of a successor lookup.  A successor lookup is   *)
(* a function from node id to the sequence of its outgoing neighbours.     *)

\* graph.getSuccessors.bind(graph): the engine as a successor lookup.
SuccessorsOf(g) == [n \in NodeIds |-> getSuccessors(g, n)]

\* (node) => []: the lookup that returns no neighbours.
NoArcs == [n \in NodeIds |-> <<>>]

RECURSIVE reachVisit(_, _, _, _)
\* for (const v of getSuccessors(u)) { ... }, from position i on;
\* b is [found, seen, q].
reachVisit(b, to, adj, i) ==
    IF i > Len(adj) THEN b
    ELSE LET v == adj[i] IN
         IF v \in b.seen THEN reachVisit(b, to, adj, i + 1)
         ELSE IF v = to THEN [b EXCEPT !.found = TRUE]
         ELSE reachVisit([b EXCEPT !.seen = @ \cup {v}, !.q = Append(@, v)],
                         to, adj, i + 1)

RECURSIVE reachLoop(_, _, _, _)
\* while (head < q.length) { ... }
reachLoop(b, to, succ, head) ==
    IF ~(head < Len(b.q)) THEN FALSE
    ELSE LET b2 == reachVisit(b, to, succ[b.q[head + 1]], 1)
         IN  IF b2.found THEN TRUE ELSE reachLoop(b2, to, succ, head + 1)

\* An isReachable without the test of from === to.
isReachableNoTrivialCase(from, to, succ) ==
    reachLoop([found |-> FALSE, seen |-> {from}, q |-> <<from>>], to, succ, 0)

isReachable(from, to, succ) ==
    IF from = to THEN TRUE
    ELSE reachLoop([found |-> FALSE, seen |-> {from}, q |-> <<from>>],
                   to, succ, 0)

RECURSIVE reconstructReversed(_, _, _)
\* A reconstruction that appends each node instead of putting it in front.
reconstructReversed(parent, cur, path) ==
    LET longer == Append(path, cur)
    IN  IF cur \in DOMAIN parent
        THEN reconstructReversed(parent, parent[cur], longer)
        ELSE longer

RECURSIVE reconstruct(_, _, _)
\* while (cur !== undefined) { path.unshift(cur); cur = parent.get(cur) }
reconstruct(parent, cur, path) ==
    LET longer == <<cur>> \o path
    IN  IF cur \in DOMAIN parent
        THEN reconstruct(parent, parent[cur], longer)
        ELSE longer

RECURSIVE pathVisit(_, _, _, _, _)
\* for (const v of getSuccessors(u)) { ... }, from position i on;
\* b is [found, seen, parent, q].
pathVisit(b, to, u, adj, i) ==
    IF i > Len(adj) THEN b
    ELSE LET v == adj[i] IN
         IF v \in b.seen THEN pathVisit(b, to, u, adj, i + 1)
         ELSE LET b2 == [b EXCEPT !.seen = @ \cup {v},
                                  !.parent = MapSet(@, v, u)]
              IN  IF v = to THEN [b2 EXCEPT !.found = TRUE]
                  ELSE pathVisit([b2 EXCEPT !.q = Append(@, v)],
                                 to, u, adj, i + 1)

RECURSIVE pathLoop(_, _, _, _)
\* while (head < q.length) { ... }
pathLoop(b, to, succ, head) ==
    IF ~(head < Len(b.q)) THEN None
    ELSE LET u == b.q[head + 1]
             b2 == pathVisit(b, to, u, succ[u], 1)
         IN  IF b2.found THEN Some(reconstruct(b2.parent, to, <<>>))
             ELSE pathLoop(b2, to, succ, head + 1)

\* The path as Some(path), or None for null.
shortestPath(from, to, succ) ==
    IF from = to THEN Some(<<from>>)
    ELSE pathLoop([found |-> FALSE, seen |-> {from}, parent |-> EmptyMap,
                   q |-> <<from>>], to, succ, 0)

RECURSIVE allPathsDfs(_, _, _, _, _, _, _)
RECURSIVE allPathsSuccessors(_, _, _, _, _, _, _, _)

\* A dfs that gives up one edge early.
allPathsDfsGivesUpEarly(st, u, path, depth, to, succ, maxDepth) ==
    IF depth >= maxDepth THEN st
    ELSE IF u = to THEN [st EXCEPT !.paths = Append(@, path)]
    ELSE allPathsSuccessors(st, u, path, depth, to, succ, maxDepth, 1)

\* function dfs(u, path, depth); st is [paths, visited].
allPathsDfs(st, u, path, depth, to, succ, maxDepth) ==
    IF depth > maxDepth THEN st
    ELSE IF u = to THEN [st EXCEPT !.paths = Append(@, path)]
    ELSE allPathsSuccessors(st, u, path, depth, to, succ, maxDepth, 1)

\* for (const v of getSuccessors(u)) { ... }, from position i on
allPathsSuccessors(st, u, path, depth, to, succ, maxDepth, i) ==
    IF i > Len(succ[u]) THEN st
    ELSE LET v == succ[u][i] IN
         IF v \in st.visited
         THEN allPathsSuccessors(st, u, path, depth, to, succ, maxDepth, i + 1)
         ELSE LET st1 == [st EXCEPT !.visited = @ \cup {v}]
                  st2 == allPathsDfs(st1, v, Append(path, v), depth + 1,
                                     to, succ, maxDepth)
                  st3 == [st2 EXCEPT !.visited = @ \ {v}]
              IN  allPathsSuccessors(st3, u, path, depth, to, succ,
                                     maxDepth, i + 1)

\* A findAllPaths that counts the depth in nodes.
findAllPathsDepthInNodes(from, to, succ, maxDepth) ==
    IF maxDepth < 0
    THEN [status |-> "findAllPaths: maxDepth must be >= 0", value |-> <<>>]
    ELSE [status |-> "ok",
          value |-> allPathsDfs([paths |-> <<>>, visited |-> {from}],
                                from, <<from>>, 1, to, succ, maxDepth).paths]

\* The outcome: the error thrown or "ok", and the paths returned.
findAllPaths(from, to, succ, maxDepth) ==
    IF maxDepth < 0
    THEN [status |-> "findAllPaths: maxDepth must be >= 0", value |-> <<>>]
    ELSE [status |-> "ok",
          value |-> allPathsDfs([paths |-> <<>>, visited |-> {from}],
                                from, <<from>>, 0, to, succ, maxDepth).paths]

RECURSIVE closureVisitNoEnqueue(_, _, _)
\* A search that does not follow the neighbours it finds.
closureVisitNoEnqueue(b, adj, i) ==
    IF i > Len(adj) THEN b
    ELSE LET v == adj[i] IN
         IF v \in b.seen THEN closureVisitNoEnqueue(b, adj, i + 1)
         ELSE closureVisitNoEnqueue([b EXCEPT !.seen = @ \cup {v},
                                              !.reach = Append(@, v)],
                                    adj, i + 1)

RECURSIVE closureVisit(_, _, _)
\* for (const v of getSuccessors(u)) { ... }, from position i on;
\* b is [seen, reach, q].
closureVisit(b, adj, i) ==
    IF i > Len(adj) THEN b
    ELSE LET v == adj[i] IN
         IF v \in b.seen THEN closureVisit(b, adj, i + 1)
         ELSE closureVisit([b EXCEPT !.seen = @ \cup {v},
                                     !.reach = Append(@, v),
                                     !.q = Append(@, v)], adj, i + 1)

RECURSIVE closureLoop(_, _, _)
\* while (head < q.length) { ... }
closureLoop(b, succ, head) ==
    IF ~(head < Len(b.q)) THEN b
    ELSE closureLoop(closureVisit(b, succ[b.q[head + 1]], 1), succ, head + 1)

\* A search that does not count its source as seen.
reachOfSourceUnseen(s, succ) ==
    closureLoop([seen |-> {}, reach |-> <<>>, q |-> <<s>>], succ, 0).reach

\* The Set reach that the search from s ends with.
reachOf(s, succ) ==
    closureLoop([seen |-> {s}, reach |-> <<>>, q |-> <<s>>], succ, 0).reach

RECURSIVE closureFrom(_, _, _, _)
\* for (const s of nodes) { ...; closure.set(s, reach) }, from position i on
closureFrom(closure, ns, succ, i) ==
    IF i > Len(ns) THEN closure
    ELSE closureFrom(MapSet(closure, ns[i], reachOf(ns[i], succ)),
                     ns, succ, i + 1)

\* transitiveClosure(nodes, getSuccessors); ns is the argument nodes.
transitiveClosure(ns, succ) == closureFrom(EmptyMap, ns, succ, 1)

\* The value of an array entry that is not there; it is no node id.
undefined == "undefined"

\* The outcome of a call that throws.
Fail(error) == [status |-> error, value |-> None]

\* The errors longestPathDAG throws.
UndefinedEntry ==
    "longestPathDAG: topologicalOrder contains an undefined entry"
NotEveryNodeOnce ==
    "longestPathDAG: topologicalOrder must include every node exactly once"
MissingNodes == "longestPathDAG: topologicalOrder is missing nodes"
EdgeGoesBackward ==
    "longestPathDAG: provided topologicalOrder is not valid for this graph (edge goes backward)"

RECURSIVE orderPositions(_, _, _)
\* for (let i = 0; i < topologicalOrder.length; i++) { ...; pos.set(node, i) }
\* from the entry at position i (counted from 1) on
orderPositions(pos, order, i) ==
    IF i > Len(order) THEN [status |-> "ok", pos |-> pos]
    ELSE IF order[i] = undefined
    THEN [status |-> UndefinedEntry, pos |-> pos]
    ELSE orderPositions(MapSet(pos, order[i], i - 1), order, i + 1)

RECURSIVE validateEdges(_, _, _, _, _)
\* for (const u of nodes) for (const v of getSuccessors(u)) { ... }, from
\* the j-th successor of the i-th node on: the error thrown, or "ok"
validateEdges(ns, succ, pos, i, j) ==
    IF i > Len(ns) THEN "ok"
    ELSE IF j > Len(succ[ns[i]]) THEN validateEdges(ns, succ, pos, i + 1, 1)
    ELSE LET u == ns[i]
             v == succ[u][j]
         IN  IF u \notin DOMAIN pos \/ v \notin DOMAIN pos
             THEN MissingNodes
             ELSE IF pos[u] >= pos[v] THEN EdgeGoesBackward
             ELSE validateEdges(ns, succ, pos, i, j + 1)

\* A validation that counts the entries before it looks at them.
orderErrorCountsFirst(ns, succ, order) ==
    IF Cardinality(Range(order)) # Len(ns) THEN NotEveryNodeOnce
    ELSE LET p == orderPositions(EmptyMap, order, 1) IN
         IF p.status # "ok" THEN p.status
         ELSE validateEdges(ns, succ, p.pos, 1, 1)

\* The validation of topologicalOrder: the error thrown, or "ok".
orderError(ns, succ, order) ==
    LET p == orderPositions(EmptyMap, order, 1) IN
    IF p.status # "ok" THEN p.status
    ELSE IF Cardinality(DOMAIN p.pos) # Len(ns) THEN NotEveryNodeOnce
    ELSE validateEdges(ns, succ, p.pos, 1, 1)

RECURSIVE relax(_, _, _, _, _)
\* for (const v of getSuccessors(u)) { cand = du + 1; ... }, from position
\* i on; d is [dist, parent].
relax(d, u, du, adj, i) ==
    IF i > Len(adj) THEN d
    ELSE LET v == adj[i]
             cand == du + 1
         IN  IF v \notin DOMAIN d.dist \/ cand > d.dist[v]
             THEN relax([d EXCEPT !.dist = MapSet(@, v, cand),
                                  !.parent = MapSet(@, v, Some(u))],
                        u, du, adj, i + 1)
             ELSE relax(d, u, du, adj, i + 1)

RECURSIVE distances(_, _, _, _)
\* for (const u of topologicalOrder) { ... }, from position i on
distances(d, order, succ, i) ==
    IF i > Len(order) THEN d
    ELSE LET u == order[i]
             d1 == IF u \notin DOMAIN d.dist
                   THEN [d EXCEPT !.dist = MapSet(@, u, 0),
                                  !.parent = MapSet(@, u, None)]
                   ELSE d
         IN  distances(relax(d1, u, d1.dist[u], succ[u], 1),
                       order, succ, i + 1)

RECURSIVE bestEndTakesLast(_, _, _, _)
\* A choice of the end node that lets a later node of equal distance win.
bestEndTakesLast(e, dist, order, i) ==
    IF i > Len(order) THEN e
    ELSE LET u == order[i]
             du == IF u \in DOMAIN dist THEN dist[u] ELSE 0
         IN  bestEndTakesLast(IF du >= e.best
                              THEN [end |-> Some(u), best |-> du] ELSE e,
                              dist, order, i + 1)

RECURSIVE bestEnd(_, _, _, _)
\* for (const u of topologicalOrder) { if (du > best) ... }, from position
\* i on; e is [end, best].
bestEnd(e, dist, order, i) ==
    IF i > Len(order) THEN e
    ELSE LET u == order[i]
             du == IF u \in DOMAIN dist THEN dist[u] ELSE 0
         IN  bestEnd(IF du > e.best THEN [end |-> Some(u), best |-> du] ELSE e,
                     dist, order, i + 1)

RECURSIVE pathTo(_, _, _)
\* while (cur !== null) { path.unshift(cur); cur = parent.get(cur) ?? null }
\* cur is None for null.  The loop does not end when it comes to a node a
\* second time: the result is then None.
pathTo(parent, cur, path) ==
    IF cur = None THEN Some(path)
    ELSE IF cur[1] \in Range(path) THEN None
    ELSE pathTo(parent,
                IF cur[1] \in DOMAIN parent THEN parent[cur[1]] ELSE None,
                <<cur[1]>> \o path)

\* longestPathDAG(nodes, getSuccessors, topologicalOrder); ns is the
\* argument nodes.  The outcome: the error thrown, "ok" with the value
\* returned, or "no return" when the last loop does not end.
longestPathDAG(ns, succ, order) ==
    LET invalid == orderError(ns, succ, order) IN
    IF invalid # "ok" THEN Fail(invalid)
    ELSE
    LET d == distances([dist |-> EmptyMap, parent |-> EmptyMap],
                       order, succ, 1)
        e0 == IF Len(order) > 0
              THEN [end |-> Some(order[1]), best |-> d.dist[order[1]]]
              ELSE [end |-> None, best |-> 0]
        e == bestEnd(e0, d.dist, order, 1)
        path == pathTo(d.parent, e.end, <<>>)
    IN  IF path = None THEN Fail("no return")
        ELSE [status |-> "ok",
              value |-> Some([length |-> e.best, path |-> path[1]])]

\* What for (const v of undefined) throws.
NotIterable == "TypeError: undefined is not iterable"

RECURSIVE undirectedForwardOnly(_, _, _, _, _)
\* A neighbour map that does not add the source to the target's set.
undirectedForwardOnly(nb, ns, succ, i, j) ==
    IF i > Len(ns) THEN [neighbors |-> nb, selfLoop |-> FALSE]
    ELSE IF j > Len(succ[ns[i]])
    THEN undirectedForwardOnly(nb, ns, succ, i + 1, 1)
    ELSE LET u == ns[i]
             v == succ[u][j]
             nb1 == [nb EXCEPT ![u] = SetAdd(@, v)]
         IN  IF u = v THEN [neighbors |-> nb1, selfLoop |-> TRUE]
             ELSE undirectedForwardOnly(nb1, ns, succ, i, j + 1)

RECURSIVE undirected(_, _, _, _, _)
\* for (const u of nodes) for (const v of getSuccessors(u)) { ... }, from
\* the j-th successor of the i-th node on; nb is the Map neighbors.
undirected(nb, ns, succ, i, j) ==
    IF i > Len(ns) THEN [neighbors |-> nb, selfLoop |-> FALSE]
    ELSE IF j > Len(succ[ns[i]]) THEN undirected(nb, ns, succ, i + 1, 1)
    ELSE LET u == ns[i]
             v == succ[u][j]
             nb1 == [nb EXCEPT ![u] = SetAdd(@, v)]
             nb2 == IF v \in DOMAIN nb1
                    THEN [nb1 EXCEPT ![v] = SetAdd(@, u)] ELSE nb1
         IN  IF u = v THEN [neighbors |-> nb2, selfLoop |-> TRUE]
             ELSE undirected(nb2, ns, succ, i, j + 1)

RECURSIVE colourVisit(_, _, _, _)
\* for (const v of neighbors.get(u)!) { ... }, from position i on; c is
\* [color, A, B, q, verdict] and cu the colour of u.
colourVisit(c, cu, adj, i) ==
    IF i > Len(adj) THEN c
    ELSE LET v == adj[i] IN
         IF v \notin DOMAIN c.color
         THEN LET cv == 1 - cu
              IN  colourVisit([c EXCEPT !.color = MapSet(@, v, cv),
                                        !.A = IF cv = 0 THEN SetAdd(@, v) ELSE @,
                                        !.B = IF cv = 0 THEN @ ELSE SetAdd(@, v),
                                        !.q = Append(@, v)],
                              cu, adj, i + 1)
         ELSE IF c.color[v] = cu THEN [c EXCEPT !.verdict = "odd"]
         ELSE colourVisit(c, cu, adj, i + 1)

RECURSIVE colourLoop(_, _, _)
\* while (head < q.length) { ... }; neighbors.get(u) is undefined for a
\* node u that is not in the node list.
colourLoop(c, nb, head) ==
    IF ~(head < Len(c.q)) THEN c
    ELSE LET u == c.q[head + 1] IN
         IF u \notin DOMAIN nb THEN [c EXCEPT !.verdict = NotIterable]
         ELSE LET c2 == colourVisit(c, c.color[u], nb[u], 1)
              IN  IF c2.verdict # "ok" THEN c2
                  ELSE colourLoop(c2, nb, head + 1)

RECURSIVE colourFrom(_, _, _, _)
\* for (const s of nodes) { if (color.has(s)) continue; ... }, from
\* position i on
colourFrom(c, ns, nb, i) ==
    IF i > Len(ns) THEN c
    ELSE LET s == ns[i] IN
         IF s \in DOMAIN c.color THEN colourFrom(c, ns, nb, i + 1)
         ELSE LET c1 == [c EXCEPT !.color = MapSet(@, s, 0),
                                  !.A = SetAdd(@, s),
                                  !.q = <<s>>]
                  c2 == colourLoop(c1, nb, 0)
              IN  IF c2.verdict # "ok" THEN c2
                  ELSE colourFrom(c2, ns, nb, i + 1)

\* isBipartite(nodes, getSuccessors); ns is the argument nodes.  The
\* outcome: the error thrown or "ok", and the value returned.
isBipartite(ns, succ) ==
    LET no == [status |-> "ok",
               value |-> Some([isBipartite |-> FALSE, partition |-> None])]
        n == undirected([x \in Range(ns) |-> <<>>], ns, succ, 1, 1)
    IN  IF n.selfLoop THEN no
        ELSE
        LET c == colourFrom([color |-> EmptyMap, A |-> <<>>, B |-> <<>>,
                             q |-> <<>>, verdict |-> "ok"],
                            ns, n.neighbors, 1)
        IN  IF c.verdict = NotIterable THEN Fail(NotIterable)
            ELSE IF c.verdict = "odd" THEN no
            ELSE [status |-> "ok",
                  value |-> Some([isBipartite |-> TRUE,
                                  partition |-> Some(<<c.A, c.B>>)])]

-----------------------------------------------------------------------------
(* The engine as a state machine *)

\* The call made and its outcome.
Call(op, r) == [op |-> op, status |-> r.status, ret |-> r.ret]

Commit(g) ==
    /\ nodes' = g.nodes
    /\ edges' = g.edges
    /\ adjacencyList' = g.adjacencyList
    /\ reverseAdjacencyList' = g.reverseAdjacencyList
    /\ edgeIndex' = g.edgeIndex
    /\ nextEdgeId' = g.nextEdgeId
    /\ options' = g.options

Init ==
    /\ \E opts \in GraphOptions :
          LET g == constructor(opts)
          IN  /\ nodes = g.nodes
              /\ edges = g.edges
              /\ adjacencyList = g.adjacencyList
              /\ reverseAdjacencyList = g.reverseAdjacencyList
              /\ edgeIndex = g.edgeIndex
              /\ nextEdgeId = g.nextEdgeId
              /\ options = g.options
    /\ last = [op |-> "new", status |-> "ok", ret |-> ""]
    /\ result = None
    /\ replay = None
    /\ lookup = NoArcs
    /\ query = None
    /\ answer = None

DoAddNode(id) ==
    LET r == addNode(this, id)
    IN  /\ Commit(r.g)
        /\ last' = Call("addNode", r)
        /\ result' = None
        /\ UNCHANGED library

\* A call that would store an edge beyond the bound is not made; a call
\* that fails is made in every state.
DoAddEdge(from, to) ==
    LET r == addEdge(this, from, to)
    IN  /\ r.status = "ok" => (Len(edges) < MaxEdges /\ nextEdgeId < MaxEdges)
        /\ Commit(r.g)
        /\ last' = Call("addEdge", r)
        /\ result' = None
        /\ UNCHANGED library

DoClear ==
    LET r == clear(this)
    IN  /\ Commit(r.g)
        /\ last' = Call("clear", r)
        /\ result' = None
        /\ UNCHANGED library

AddNode(id) == DoAddNode(id) /\ UNCHANGED replay

AddEdge(from, to) == DoAddEdge(from, to) /\ UNCHANGED replay

Clear == DoClear /\ UNCHANGED replay

Analyze ==
    LET r == analyze(this)
    IN  /\ last' = [op |-> "analyze", status |-> r.status, ret |-> ""]
        /\ result' = r.value
        /\ UNCHANGED <<engine, replay, library>>

Next ==
    \/ \E id \in NodeIds : AddNode(id)
    \/ \E from, to \in NodeIds : AddEdge(from, to)
    \/ Clear

\* The mutating operations of the engine, called in any order.
Spec == Init /\ [][Next]_vars

NextAnalyze ==
    \/ Next
    \/ Analyze

\* The mutating operations and analyze(), called in any order.
SpecAnalyze == Init /\ [][NextAnalyze]_vars

\* The query and analysis methods of the engine.
QueryOps ==
    {"getSuccessors", "getSuccessorsStrict", "getPredecessors",
     "getPredecessorsStrict", "hasNode", "hasEdge", "findSCCs",
     "topologicalSort", "classifyEdges", "findCycles",
     "buildCondensationGraph", "analyze"}

\* The outcome of the call named op with the arguments args on the engine g.
Run(g, op, args) ==
    CASE op = "getSuccessors" -> Found(getSuccessors(g, args[1]))
      [] op = "getSuccessorsStrict" -> getSuccessorsStrict(g, args[1])
      [] op = "getPredecessors" -> Found(getPredecessors(g, args[1]))
      [] op = "getPredecessorsStrict" -> getPredecessorsStrict(g, args[1])
      [] op = "hasNode" -> Found(hasNode(g, args[1]))
      [] op = "hasEdge" -> Found(hasEdge(g, args[1], args[2]))
      [] op = "findSCCs" -> Found(findSCCs(g))
      [] op = "topologicalSort" -> Found(topologicalSort(g))
      [] op = "classifyEdges" -> Found(classifyEdges(g))
      [] op = "findCycles" -> Found(findCycles(g, NoPrecomputed))
      [] op = "buildCondensationGraph" ->
            buildCondensationGraph(g, NoPrecomputed)
      [] op = "analyze" -> analyze(g)

QueryDropsReverseIndex(op, args) ==
    LET r == Run(this, op, args)
    IN  /\ last.op \notin QueryOps
        /\ last' = [op |-> op, status |-> r.status, ret |-> "", args |-> args]
        /\ result' = r.value
        /\ reverseAdjacencyList' = EmptyMap
        /\ UNCHANGED <<nodes, edges, adjacencyList, edgeIndex, nextEdgeId,
                       options, replay, library>>

\* A call of a query or analysis method: none of them assigns to a field of
\* the engine, and each hands out newly built arrays, maps and records.
\* The call is made on the engine as the constructor or a mutating call has
\* left it: a query changes nothing, so these are the engines a query meets.
Query(op, args) ==
    LET r == Run(this, op, args)
    IN  /\ last.op \notin QueryOps
        /\ last' = [op |-> op, status |-> r.status, ret |-> "", args |-> args]
        /\ result' = r.value
        /\ UNCHANGED <<engine, replay, library>>

GetSuccessors(n) == Query("getSuccessors", <<n>>)
GetSuccessorsStrict(n) == Query("getSuccessorsStrict", <<n>>)
GetPredecessors(n) == Query("getPredecessors", <<n>>)
GetPredecessorsStrict(n) == Query("getPredecessorsStrict", <<n>>)
HasNode(n) == Query("hasNode", <<n>>)
HasEdge(from, to) == Query("hasEdge", <<from, to>>)
FindSCCs == Query("findSCCs", <<>>)
TopologicalSort == Query("topologicalSort", <<>>)
ClassifyEdges == Query("classifyEdges", <<>>)
FindCycles == Query("findCycles", <<>>)
BuildCondensationGraph == Query("buildCondensationGraph", <<>>)
AnalyzeQuery == Query("analyze", <<>>)

NextQueries ==
    \/ Next
    \/ \E n \in NodeIds : GetSuccessors(n)
    \/ \E n \in NodeIds : GetSuccessorsStrict(n)
    \/ \E n \in NodeIds : GetPredecessors(n)
    \/ \E n \in NodeIds : GetPredecessorsStrict(n)
    \/ \E n \in NodeIds : HasNode(n)
    \/ \E from, to \in NodeIds : HasEdge(from, to)
    \/ FindSCCs
    \/ TopologicalSort
    \/ ClassifyEdges
    \/ FindCycles
    \/ BuildCondensationGraph
    \/ AnalyzeQuery

\* An engine that accepts every edge between known nodes.
InitQueries ==
    /\ Init
    /\ options = [allowSelfLoops |-> TRUE, allowMultiEdges |-> TRUE,
                  validateOnConstruction |-> TRUE]

\* The mutating operations and the query and analysis methods, interleaved.
SpecQueries == InitQueries /\ [][NextQueries]_vars

\* From the first clear() on, every call is also made on a second engine:
\* clear() is answered there by constructing a new engine with the same
\* options, addNode and addEdge are made on it as they are.  replay holds
\* the outcome of the last call on the second engine.
ReplayAddNode(id) ==
    /\ DoAddNode(id)
    /\ replay' = IF replay = None THEN None
                 ELSE Some(addNode(replay[1].g, id))

ReplayAddEdge(from, to) ==
    /\ DoAddEdge(from, to)
    /\ replay' = IF replay = None THEN None
                 ELSE Some(addEdge(replay[1].g, from, to))

ReplayClear ==
    /\ DoClear
    /\ replay' = Some(Return(constructor(options), ""))

NextReplay ==
    \/ \E id \in NodeIds : ReplayAddNode(id)
    \/ \E from, to \in NodeIds : ReplayAddEdge(from, to)
    \/ ReplayClear

\* The mutating operations, replayed on a new engine after each clear().
SpecReplay == Init /\ [][NextReplay]_vars

-----------------------------------------------------------------------------
(* The pure functions as a state machine: a caller makes one call after    *)
(* the other; query holds the call and answer its outcome.                 *)

\* The options of new DirectedGraph().
DefaultOptions == [allowSelfLoops |-> TRUE, allowMultiEdges |-> FALSE,
                   validateOnConstruction |-> TRUE]

\* A caller that has constructed an engine and made no call yet.
InitLibrary ==
    /\ LET g == constructor(DefaultOptions)
       IN  /\ nodes = g.nodes
           /\ edges = g.edges
           /\ adjacencyList = g.adjacencyList
           /\ reverseAdjacencyList = g.reverseAdjacencyList
           /\ edgeIndex = g.edgeIndex
           /\ nextEdgeId = g.nextEdgeId
           /\ options = g.options
    /\ last = [op |-> "new", status |-> "ok", ret |-> ""]
    /\ result = None
    /\ replay = None
    /\ lookup = NoArcs
    /\ query = None
    /\ answer = None

\* Node ids a caller may choose: a NodeId is any string, so an id may be
\* empty and may contain digits and the characters the key is built with.
KeyIds == {"", "a", "b", "1", "11", ":", "|", "a|b", "1:a", "a|1:b", "1:a|1:b"}

GetEdgeKey(from, to) ==
    /\ query' = Some([op |-> "getEdgeKey", from |-> from, to |-> to])
    /\ answer' = Some([status |-> "ok", value |-> getEdgeKey(from, to)])
    /\ UNCHANGED <<engine, last, result, replay, lookup>>

NextKey == \E from, to \in KeyIds : GetEdgeKey(from, to)

\* getEdgeKey, called with any pair of ids.
SpecKey == InitLibrary /\ [][NextKey]_vars

RECURSIVE ArcCount(_, _)
\* The number of neighbours the lookup f returns for the nodes of S in all.
ArcCount(f, S) ==
    IF S = {} THEN 0
    ELSE LET n == CHOOSE x \in S : TRUE
         IN  Len(f[n]) + ArcCount(f, S \ {n})

\* The caller gives node u one more neighbour, which may be one it has.
Link(u, v) ==
    /\ ArcCount(lookup, NodeIds) < MaxArcs
    /\ lookup' = [lookup EXCEPT ![u] = Append(@, v)]
    /\ query' = None
    /\ answer' = None
    /\ UNCHANGED <<engine, last, result, replay>>

\* A call of a function of algorithms.ts with the caller's lookup.  The
\* functions keep nothing between calls, so one call is followed on each
\* lookup, and the caller goes on by extending the lookup.
Ask(q, a) ==
    /\ query = None
    /\ query' = Some(q)
    /\ answer' = Some(a)
    /\ UNCHANGED <<engine, last, result, replay, lookup>>

IsReachable(from, to) ==
    Ask([op |-> "isReachable", from |-> from, to |-> to],
        [status |-> "ok", value |-> isReachable(from, to, lookup)])

ShortestPath(from, to) ==
    Ask([op |-> "shortestPath", from |-> from, to |-> to],
        [status |-> "ok", value |-> shortestPath(from, to, lookup)])

FindAllPaths(from, to, maxDepth) ==
    Ask([op |-> "findAllPaths", from |-> from, to |-> to,
         maxDepth |-> maxDepth],
        findAllPaths(from, to, lookup, maxDepth))

\* The node lists a caller passes: some of the nodes, in some order.
NodeLists ==
    {p \in UNION {[1..k -> NodeIds] : k \in 0..Cardinality(NodeIds)} :
        Cardinality(Range(p)) = Len(p)}

TransitiveClosure(ns) ==
    Ask([op |-> "transitiveClosure", nodes |-> ns],
        [status |-> "ok", value |-> transitiveClosure(ns, lookup)])

IsBipartite(ns) ==
    Ask([op |-> "isBipartite", nodes |-> ns], isBipartite(ns, lookup))

NextAlgorithms ==
    \/ \E u, v \in NodeIds : Link(u, v)
    \/ \E from, to \in NodeIds : IsReachable(from, to)
    \/ \E from, to \in NodeIds : ShortestPath(from, to)
    \/ \E from, to \in NodeIds : \E maxDepth \in (-1)..MaxDepth :
          FindAllPaths(from, to, maxDepth)
    \/ \E ns \in NodeLists : TransitiveClosure(ns)
    \/ \E ns \in NodeLists : IsBipartite(ns)

\* The functions of algorithms.ts, called with any lookup.
SpecAlgorithms == InitLibrary /\ [][NextAlgorithms]_vars

\* The node lists a caller of longestPathDAG passes: the first k nodes.
\* Every lookup is tried with them, so every list of distinct nodes is
\* tried up to the names of the nodes.
NodePrefixes ==
    {SubSeq(<<"A", "B", "C">>, 1, k) : k \in 0..Cardinality(NodeIds)}

\* The orders a caller passes: any entries, undefined ones among them.
Orders ==
    UNION {[1..k -> NodeIds \cup {undefined}] : k \in 0..Cardinality(NodeIds)}

LongestPathDAG(ns, order) ==
    Ask([op |-> "longestPathDAG", nodes |-> ns, topologicalOrder |-> order],
        longestPathDAG(ns, lookup, order))

NextLongestPath ==
    \/ \E u, v \in NodeIds : Link(u, v)
    \/ \E ns \in NodePrefixes : \E order \in Orders : LongestPathDAG(ns, order)

\* longestPathDAG, called with any lookup, node list and order.
SpecLongestPath == InitLibrary /\ [][NextLongestPath]_vars

\* A caller keeps the list findSCCs() returned: query holds the call and the
\* engine it was made on, answer the list.
KeepSCCs ==
    /\ query = None
    /\ query' = Some([op |-> "findSCCs", on |-> this])
    /\ answer' = Some(findSCCs(this))
    /\ last' = [op |-> "findSCCs", status |-> "ok", ret |-> ""]
    /\ result' = None
    /\ UNCHANGED <<engine, replay, lookup>>

\* buildCondensationGraph({ sccs }) with the list the caller has kept.
BuildFromKept ==
    /\ answer # None
    /\ LET r == buildCondensationGraph(this,
                     [sccs |-> answer, edgeClassifications |-> None])
       IN  /\ last' = [op |-> "buildCondensationGraph", status |-> r.status,
                       ret |-> ""]
           /\ result' = r.value
    /\ UNCHANGED <<engine, replay, library>>

NextKept ==
    \/ \E id \in NodeIds : AddNode(id)
    \/ \E from, to \in NodeIds : AddEdge(from, to)
    \/ KeepSCCs
    \/ BuildFromKept

\* addNode and addEdge calls on a new DirectedGraph(), with a findSCCs()
\* whose list is handed to later buildCondensationGraph calls.
SpecKept == InitLibrary /\ [][NextKept]_vars

-----------------------------------------------------------------------------
(* The adjacency indices mirror the edge set *)

\* Some stored edge goes from u to v.
Stored(g, u, v) == \E i \in 1..Len(g.edges) :
                      g.edges[i].from = u /\ g.edges[i].to = v

\* C1: in every state reached by addNode, addEdge and clear calls, failed
\* ones included, for all nodes u and v the four views agree: an edge
\* u -> v is stored, v is a successor of u, u is a predecessor of v, and
\* hasEdge(u, v).
C1_ViewsAgree ==
    \A u, v \in NodeIds :
        /\ Stored(this, u, v) <=> v \in Range(getSuccessors(this, u))
        /\ Stored(this, u, v) <=> u \in Range(getPredecessors(this, v))
        /\ Stored(this, u, v) <=> hasEdge(this, u, v)

\* A failed addEdge on an engine that stores A -> B and not B -> A.
C1_Witness ==
    /\ last.op = "addEdge" /\ last.status # "ok"
    /\ hasEdge(this, "A", "B") /\ ~hasEdge(this, "B", "A")
    /\ Len(edges) >= 2

-----------------------------------------------------------------------------
(* Errors of the mutating operations *)

\* C2: addEdge(from, to) fails exactly when from is no node, to is no node,
\* from = to with self-loops off, or an edge from -> to is stored with
\* multi-edges off; otherwise it succeeds, keeps the stored edges and adds
\* one edge from -> to, whose id it returns.
C2_AddEdgeFailsExactlyWhen ==
    \A from, to \in NodeIds :
        LET r == addEdge(this, from, to)
            mustFail == \/ from \notin Range(nodes)
                        \/ to \notin Range(nodes)
                        \/ from = to /\ ~options.allowSelfLoops
                        \/ Stored(this, from, to) /\ ~options.allowMultiEdges
        IN  /\ r.status # "ok" <=> mustFail
            /\ r.status = "ok" =>
                  /\ Len(r.g.edges) = Len(edges) + 1
                  /\ SubSeq(r.g.edges, 1, Len(edges)) = edges
                  /\ r.g.edges[Len(edges) + 1] =
                         [id |-> r.ret, from |-> from, to |-> to]

\* addEdge has refused a second edge for a pair, and with self-loops off a
\* self-loop would be refused.
C2_Witness ==
    /\ last.op = "addEdge" /\ last.status = "Edge already exists"
    /\ ~options.allowSelfLoops
    /\ Len(nodes) < Cardinality(NodeIds)

\* C3: an addNode or addEdge call that fails leaves the nodes, the edges,
\* both adjacency indices, the edge index and the edge-id counter as they
\* were.
C3_FailureChangesNothing ==
    [][last'.op \in {"addNode", "addEdge"} /\ last'.status # "ok"
          => UNCHANGED engine]_vars

\* addNode has failed on an engine that stores edges.
C3_Witness ==
    /\ last.op = "addNode" /\ last.status = "Node already exists"
    /\ Len(edges) > 0

-----------------------------------------------------------------------------
(* Strongly connected components and topological order *)

\* The position of x in the sequence s without repetitions; 0 if absent.
Pos(s, x) == IF x \in Range(s) THEN CHOOSE i \in 1..Len(s) : s[i] = x ELSE 0

\* The sequence s has no entry twice.
NoRepeats(s) == Cardinality(Range(s)) = Len(s)

\* order lists every node of g once and puts the source of every edge
\* before its target.
IsTopologicalOrder(g, order) ==
    /\ Range(order) = Range(g.nodes)
    /\ NoRepeats(order)
    /\ \A i \in 1..Len(g.edges) :
          Pos(order, g.edges[i].from) < Pos(order, g.edges[i].to)

\* C4: topologicalSort() returns an order exactly when every component of
\* findSCCs() has one node and that node has no self-loop, which is when
\* every component has isAcyclic = true.
C4_SortIffAcyclicSCCs ==
    LET sccs == findSCCs(this)
        sorted == topologicalSort(this) # None
    IN  /\ sorted <=> \A i \in 1..Len(sccs) :
                         /\ Len(sccs[i].nodes) = 1
                         /\ ~Stored(this, sccs[i].nodes[1], sccs[i].nodes[1])
        /\ sorted <=> \A i \in 1..Len(sccs) : sccs[i].isAcyclic

\* Three one-node components, and a self-loop alone keeps the engine from
\* being sorted.
C4_Witness ==
    /\ Len(nodes) = 3 /\ Len(findSCCs(this)) = 3
    /\ Len(edges) = 2
    /\ topologicalSort(this) = None

\* C5: findSCCs() partitions the nodes: every node is in exactly one
\* component, component ids are pairwise distinct, two nodes share a
\* component exactly when each is reachable from the other, and isAcyclic
\* is true exactly for a one-node component without a self-loop.
C5_SCCsPartition ==
    LET sccs == findSCCs(this)
        succ == SuccessorsOf(this)
        In(n) == {i \in 1..Len(sccs) : n \in Range(sccs[i].nodes)}
    IN  /\ \A n \in Range(nodes) : Cardinality(In(n)) = 1
        /\ \A i \in 1..Len(sccs) :
              /\ Range(sccs[i].nodes) \subseteq Range(nodes)
              /\ NoRepeats(sccs[i].nodes)
              /\ sccs[i].isAcyclic <=>
                    /\ Len(sccs[i].nodes) = 1
                    /\ ~Stored(this, sccs[i].nodes[1], sccs[i].nodes[1])
        /\ \A i, j \in 1..Len(sccs) : sccs[i].id = sccs[j].id => i = j
        /\ \A u, v \in Range(nodes) :
              In(u) = In(v) <=> /\ isReachable(u, v, succ)
                                /\ isReachable(v, u, succ)

\* A component of two nodes beside a component of one node.
C5_Witness ==
    LET sccs == findSCCs(this)
    IN  /\ Len(sccs) = 2
        /\ \E i \in 1..Len(sccs) : Len(sccs[i].nodes) = 2
        /\ Len(nodes) = 3

\* The orders of the nodes that put every edge's source before its target.
TopologicalOrders(g) ==
    {p \in [1..Len(g.nodes) -> Range(g.nodes)] : IsTopologicalOrder(g, p)}

\* C6: an order returned by topologicalSort() lists every node once and
\* puts the source of every edge before its target; when no such order
\* exists topologicalSort() returns null.
C6_SortIsTopological ==
    LET order == topologicalSort(this)
    IN  /\ order # None => IsTopologicalOrder(this, order[1])
        /\ TopologicalOrders(this) = {} => order = None

\* A sorted engine whose order differs from the insertion order.
C6_Witness ==
    LET order == topologicalSort(this)
    IN  /\ order # None
        /\ Len(nodes) = 3 /\ Len(edges) >= 2
        /\ order[1] # nodes

-----------------------------------------------------------------------------
(* Condensation graph and cycles *)

\* The ids of the edges in a bucket.
Ids(bucket) == {bucket[i].id : i \in 1..Len(bucket)}

\* C7: buildCondensationGraph() without precomputed input returns a
\* topologicalOrder that lists every component id once and puts, for every
\* edge between two components, the source's component before the target's.
C7_CondensationOrder ==
    LET built == buildCondensationGraph(this, NoPrecomputed) IN
    /\ built.status = "ok"
    /\ LET c == built.value[1]
           ids == {c.components[i].id : i \in 1..Len(c.components)}
       IN  /\ Cardinality(ids) = Len(c.components)
           /\ Range(c.topologicalOrder) = ids
           /\ NoRepeats(c.topologicalOrder)
           /\ \A i \in 1..Len(edges) :
                 LET cf == c.componentMap[edges[i].from]
                     ct == c.componentMap[edges[i].to]
                 IN  cf # ct => Pos(c.topologicalOrder, cf)
                                    < Pos(c.topologicalOrder, ct)

\* Two parallel edges lead from one component into another, beside a
\* third component.
C7_Witness ==
    LET built == buildCondensationGraph(this, NoPrecomputed)
    IN  /\ built.status = "ok"
        /\ \E i \in 1..Len(built.value[1].components) :
              Len(built.value[1].components[i].entryEdges) >= 2
        /\ Len(built.value[1].topologicalOrder) = 3

\* C8: every edge id in the edges of a Cycle of findCycles() is in the
\* internalEdges of exactly one component of buildCondensationGraph(); the
\* Cycle's edges are the stored edges with both ends among its nodes, each
\* listed once; and classifyEdges() maps every id in its backEdges to
\* 'back'.
C8_CycleEdges ==
    LET cycles == findCycles(this, NoPrecomputed)
        built == buildCondensationGraph(this, NoPrecomputed)
        types == classifyEdges(this)
    IN  /\ built.status = "ok"
        /\ \A k \in 1..Len(cycles) :
              LET cycle == cycles[k]
                  components == built.value[1].components
                  inside == {i \in 1..Len(edges) :
                                /\ edges[i].from \in Range(cycle.nodes)
                                /\ edges[i].to \in Range(cycle.nodes)}
              IN  /\ \A id \in Range(cycle.edges) :
                        Cardinality({i \in 1..Len(components) :
                            id \in Ids(components[i].internalEdges)}) = 1
                  /\ Range(cycle.edges) = {edges[i].id : i \in inside}
                  /\ Len(cycle.edges) = Cardinality(inside)
                  /\ \A id \in Range(cycle.backEdges) :
                        id \in DOMAIN types /\ types[id] = "back"

\* A cycle made of two parallel edges.
C8_Witness ==
    LET cycles == findCycles(this, NoPrecomputed)
    IN  /\ Len(cycles) = 1
        /\ options.allowMultiEdges
        /\ Len(cycles[1].edges) = 2
        /\ Len(cycles[1].backEdges) = 2

-----------------------------------------------------------------------------
(* analyze *)

\* C9: analyze() returns a snapshot equal to the standalone operations on
\* the same state: the counts of stored nodes and edges, findSCCs(),
\* classifyEdges(), findCycles(), buildCondensationGraph() and
\* topologicalSort(), and isAcyclic is true exactly when the order is not
\* null.
C9_AnalyzeIsSnapshot ==
    last.op = "analyze" =>
        /\ last.status = "ok"
        /\ result # None
        /\ LET a == result[1] IN
           /\ a.nodeCount = Cardinality(Range(nodes))
           /\ a.edgeCount = Cardinality(Ids(edges))
           /\ a.sccs = findSCCs(this)
           /\ a.edgeClassifications = classifyEdges(this)
           /\ a.cycles = findCycles(this, NoPrecomputed)
           /\ Some(a.condensationGraph) =
                  buildCondensationGraph(this, NoPrecomputed).value
           /\ a.topologicalOrder = topologicalSort(this)
           /\ a.isAcyclic <=> a.topologicalOrder # None

\* analyze() has returned for an engine that only a self-loop makes cyclic.
C9_Witness ==
    /\ last.op = "analyze" /\ result # None
    /\ ~result[1].isAcyclic
    /\ Len(result[1].sccs) = 3
    /\ result[1].edgeCount = 2

-----------------------------------------------------------------------------
(* clear *)

\* C10: right after clear() the engine has no nodes and no edges, and from
\* then on it is the engine a new construction gives: the calls made after
\* the clear have the outcome and return the edge id they have on a newly
\* constructed engine, in both edge modes, and the number of SCCs, the
\* number of cycles and whether topologicalSort() is null are the same.
C10_ClearIsReset ==
    /\ last.op = "clear" => nodes = <<>> /\ edges = <<>>
    /\ replay # None =>
          LET fresh == replay[1] IN
          /\ last.status = fresh.status
          /\ last.ret = fresh.ret
          /\ this = fresh.g
          /\ Len(findSCCs(this)) = Len(findSCCs(fresh.g))
          /\ Len(findCycles(this, NoPrecomputed))
                 = Len(findCycles(fresh.g, NoPrecomputed))
          /\ topologicalSort(this) = None <=> topologicalSort(fresh.g) = None

\* After a clear() a cycle through two nodes has been built in multi-edge
\* mode.
C10_Witness ==
    /\ replay # None
    /\ options.allowMultiEdges
    /\ last.op = "addEdge" /\ last.status = "ok"
    /\ Len(edges) = 2 /\ Len(nodes) = 2
    /\ Len(findSCCs(this)) = 1
    /\ Len(findCycles(this, NoPrecomputed)) = 1

-----------------------------------------------------------------------------
(* Edge ids *)

\* C11: the stored edges have pairwise distinct ids, and there is one
\* stored edge per successful addEdge call since construction or the last
\* clear(): a successful addEdge keeps every stored edge and appends one
\* edge whose id, the id it returns, no stored edge had; a failed call
\* and addNode leave the edges alone; clear() removes them all.
C11_OneEdgePerAddEdge ==
    [][/\ \A i, j \in 1..Len(edges') : edges'[i].id = edges'[j].id => i = j
       /\ last'.op = "addEdge" /\ last'.status = "ok" =>
              /\ Len(edges') = Len(edges) + 1
              /\ SubSeq(edges', 1, Len(edges)) = edges
              /\ edges'[Len(edges')].id = last'.ret
              /\ last'.ret \notin Ids(edges)
       /\ last'.op = "addEdge" /\ last'.status # "ok" => edges' = edges
       /\ last'.op = "addNode" => edges' = edges
       /\ last'.op = "clear" => edges' = <<>>]_vars

\* With allowMultiEdges a second addEdge for the pair A -> B has
\* succeeded, and both edges are stored.
C11_Witness ==
    /\ options.allowMultiEdges
    /\ last.op = "addEdge" /\ last.status = "ok"
    /\ Len(getEdgeIdsBetween(this, "A", "B")) = 2
    /\ Len(edges) = 2

\* The stored edges before position i that join the same pair as edge i.
EarlierParallel(g, i) ==
    {j \in 1..(i - 1) : /\ g.edges[j].from = g.edges[i].from
                         /\ g.edges[j].to = g.edges[i].to}

\* The ids a key can get a numeric suffix appended to.
Suffixed(key) == {key \o "#" \o ToString(n) : n \in 0..MaxEdges}

\* C12 as stated: the first edge stored for a pair has the encoded key of
\* the pair as its id, and only a further edge of the same pair has a
\* numeric suffix appended to the key.
C12_SuffixOnlyForParallel ==
    \A i \in 1..Len(edges) :
        LET key == getEdgeKey(edges[i].from, edges[i].to)
        IN  IF EarlierParallel(this, i) = {}
            THEN edges[i].id = key
            ELSE edges[i].id \in Suffixed(key)

\* C12, amended: with allowMultiEdges off the id of an edge is the encoded
\* key of its pair; with allowMultiEdges on the id of every edge, the first
\* of its pair included, is the key followed by '#' and the number of
\* edges added before it, for whatever pair, since construction or the
\* last clear().
C12_IdIsKeyOrKeyAndCounter ==
    /\ \A i \in 1..Len(edges) :
          LET key == getEdgeKey(edges[i].from, edges[i].to)
          IN  edges[i].id = IF options.allowMultiEdges
                            THEN key \o "#" \o ToString(i - 1)
                            ELSE key
    /\ nextEdgeId = IF options.allowMultiEdges THEN Len(edges) ELSE 0

\* With allowMultiEdges the first edge of the pair B -> C is the second
\* edge added.
C12_Witness ==
    /\ options.allowMultiEdges
    /\ Len(edges) = 2
    /\ edges[1].from = "A" /\ edges[1].to = "B"
    /\ edges[2].from = "B" /\ edges[2].to = "C"
    /\ last.op = "addEdge" /\ last.ret = "1:B|1:C#1"

\* C13: the encoding of getEdgeKey is injective: the key of a pair
\* (from, to) is the key of no other pair, also for ids that are empty or
\* contain ':', '|' or digits.
C13_KeyIsInjective ==
    query # None /\ query[1].op = "getEdgeKey" =>
        \A from, to \in KeyIds :
            getEdgeKey(from, to) = answer[1].value
                => from = query[1].from /\ to = query[1].to

\* The key of a pair whose source contains an encoded key and whose target
\* is the separator of the length.
C13_Witness ==
    /\ query # None /\ query[1].op = "getEdgeKey"
    /\ query[1].from = "1:a|1:b" /\ query[1].to = ":"
    /\ answer[1].value = "7:1:a|1:b|1::"

-----------------------------------------------------------------------------
(* algorithms.ts *)

\* The walks of f of k edges: k + 1 nodes, each next one a neighbour of the
\* one before it.
WalksOf(f, k) ==
    {p \in [1..(k + 1) -> NodeIds] :
        \A i \in 1..k : p[i + 1] \in Range(f[p[i]])}

\* The walks of f from u to v that have between lo and hi edges.
Walks(f, u, v, lo, hi) ==
    UNION {{p \in WalksOf(f, k) : p[1] = u /\ p[k + 1] = v} : k \in lo..hi}

\* Some walk of one or more edges leads from u to v.  A walk that exists
\* can be cut down to at most as many edges as there are nodes.
HasPath(f, u, v) == Walks(f, u, v, 1, Cardinality(NodeIds)) # {}

\* The call made was a call of op.
Asked(op) == query # None /\ query[1].op = op

\* C14: isReachable(from, to, succ) returns true exactly when from = to or
\* a path of one or more successor steps leads from from to to; so
\* isReachable(a, a, succ) is true for a lookup without neighbours, and
\* the call returns false on a cycle that does not contain the target.
C14_ReachableIffPath ==
    Asked("isReachable") =>
        LET from == query[1].from
            to == query[1].to
        IN  /\ answer[1].status = "ok"
            /\ answer[1].value <=> (from = to \/ HasPath(lookup, from, to))
            /\ from = to => answer[1].value

\* isReachable has returned false for a target outside the cycle A -> B ->
\* A that the search starts in.
C14_Witness ==
    /\ Asked("isReachable")
    /\ query[1].from = "A" /\ query[1].to = "C"
    /\ lookup["A"] = <<"B">> /\ lookup["B"] = <<"A">>
    /\ answer[1].value = FALSE

\* p is a walk of f from u to v.
IsWalk(f, p, u, v) ==
    /\ Len(p) >= 1
    /\ p[1] = u /\ p[Len(p)] = v
    /\ \A i \in 1..(Len(p) - 1) : p[i + 1] \in Range(f[p[i]])

\* C15: shortestPath(from, to, succ) returns null exactly when to is not
\* reachable from from; otherwise it returns a path from from to to in
\* which every next node is a successor of the one before it and which has
\* as few edges as any path from from to to; for from = to it returns
\* [from].
C15_ShortestPath ==
    Asked("shortestPath") =>
        LET from == query[1].from
            to == query[1].to
            path == answer[1].value
        IN  /\ answer[1].status = "ok"
            /\ path = None <=> ~(from = to \/ HasPath(lookup, from, to))
            /\ path # None =>
                  /\ IsWalk(lookup, path[1], from, to)
                  /\ Walks(lookup, from, to, 0, Len(path[1]) - 2) = {}
            /\ from = to => path = Some(<<from>>)

\* shortestPath has returned the one-edge path where a two-edge path is
\* found first in the successor lists.
C15_Witness ==
    /\ Asked("shortestPath")
    /\ lookup["A"] = <<"B", "C">> /\ lookup["B"] = <<"C">>
    /\ answer[1].value = Some(<<"A", "C">>)

\* The paths without a repeated vertex that lead from u to v in f and have
\* at most maxDepth edges.
SimplePaths(f, u, v, maxDepth) ==
    {p \in Walks(f, u, v, 0, maxDepth) : NoRepeats(p)}

\* C16: for maxDepth >= 0 and a lookup without repeated neighbours,
\* findAllPaths(from, to, succ, maxDepth) returns the simple paths from
\* from to to of at most maxDepth edges, each once, and so an empty list
\* when every simple path has more edges; for maxDepth < 0 it fails with
\* the invalid-argument error.
C16_AllSimplePaths ==
    Asked("findAllPaths") =>
        LET from == query[1].from
            to == query[1].to
            maxDepth == query[1].maxDepth
            paths == answer[1].value
        IN  /\ maxDepth < 0 <=>
                  answer[1].status = "findAllPaths: maxDepth must be >= 0"
            /\ maxDepth >= 0 => answer[1].status = "ok"
            /\ maxDepth >= 0 /\ (\A n \in NodeIds : NoRepeats(lookup[n])) =>
                  /\ Range(paths) = SimplePaths(lookup, from, to, maxDepth)
                  /\ NoRepeats(paths)

\* Of the two simple paths from A to C, findAllPaths with maxDepth 1 has
\* returned the one of one edge and left out the one of two edges.
C16_Witness ==
    /\ Asked("findAllPaths")
    /\ query[1].from = "A" /\ query[1].to = "C" /\ query[1].maxDepth = 1
    /\ lookup["A"] = <<"B", "C">> /\ lookup["B"] = <<"C">>
    /\ answer[1].value = << <<"A", "C">> >>

\* C17: for every lookup, all from and to and every maxDepth >= 0: a path
\* returned by shortestPath(from, to, succ) is no longer than any path
\* findAllPaths(from, to, succ, maxDepth) returns, and findAllPaths
\* returns a path exactly when shortestPath returns one of at most
\* maxDepth edges.
C17_ShortestIsNoLonger ==
    Asked("findAllPaths") /\ query[1].maxDepth >= 0 =>
        LET shortest == shortestPath(query[1].from, query[1].to, lookup)
            paths == answer[1].value
        IN  /\ shortest # None =>
                  \A i \in 1..Len(paths) : Len(shortest[1]) <= Len(paths[i])
            /\ Len(paths) >= 1 <=>
                  /\ shortest # None
                  /\ Len(shortest[1]) - 1 <= query[1].maxDepth

\* findAllPaths has returned a path of two edges before the path of one
\* edge that shortestPath returns.
C17_Witness ==
    /\ Asked("findAllPaths")
    /\ query[1].from = "A" /\ query[1].to = "B" /\ query[1].maxDepth = 2
    /\ answer[1].value = << <<"A", "C", "B">>, <<"A", "B">> >>
    /\ shortestPath("A", "B", lookup) = Some(<<"A", "B">>)

\* C18 as stated: transitiveClosure maps every node s of nodes to the
\* nodes that a path of one or more edges from s leads to, s itself among
\* them exactly when a cycle leads from s back to s.
C18_ClosureHoldsSourceOnCycle ==
    Asked("transitiveClosure") =>
        \A s \in Range(query[1].nodes) :
            Range(answer[1].value[s]) = {t \in NodeIds : HasPath(lookup, s, t)}

\* C18, amended: transitiveClosure(nodes, succ) maps every node s of nodes,
\* and nothing else, to the set of the nodes other than s that a path of
\* one or more edges from s leads to; s itself is never in its own set,
\* also when a cycle leads from s back to s.
C18_ClosureWithoutSource ==
    Asked("transitiveClosure") =>
        LET closure == answer[1].value IN
        /\ DOMAIN closure = Range(query[1].nodes)
        /\ \A s \in Range(query[1].nodes) :
              /\ Range(closure[s]) =
                     {t \in NodeIds \ {s} : HasPath(lookup, s, t)}
              /\ NoRepeats(closure[s])

\* The closure of the cycle A -> B -> A maps A to B alone.
C18_Witness ==
    /\ Asked("transitiveClosure")
    /\ query[1].nodes = <<"A", "B">>
    /\ lookup["A"] = <<"B">> /\ lookup["B"] = <<"A">>
    /\ answer[1].value["A"] = <<"B">>

\* C19: the set transitiveClosure(nodes, succ) returns for a node s of
\* nodes never contains s, also when s lies on a cycle, and contains a
\* node t other than s exactly when isReachable(s, t, succ) is true.
C19_ClosureIsReachability ==
    Asked("transitiveClosure") =>
        \A s \in Range(query[1].nodes) :
            LET reach == Range(answer[1].value[s])
            IN  /\ s \notin reach
                /\ \A t \in NodeIds \ {s} :
                      t \in reach <=> isReachable(s, t, lookup)

\* The closure of the cycle A -> B -> C -> A maps A to B and C.
C19_Witness ==
    /\ Asked("transitiveClosure")
    /\ query[1].nodes = <<"A", "B", "C">>
    /\ lookup["A"] = <<"B">> /\ lookup["B"] = <<"C">> /\ lookup["C"] = <<"A">>
    /\ answer[1].value["A"] = <<"B", "C">>

-----------------------------------------------------------------------------
(* longestPathDAG *)

\* The last position of x in order; 0 if x is not in it.
LastPos(order, x) ==
    IF x \in Range(order)
    THEN CHOOSE i \in 1..Len(order) :
             order[i] = x /\ \A j \in (i + 1)..Len(order) : order[j] # x
    ELSE 0

RECURSIVE ArcList(_, _)
\* The edges u -> v of f that leave a node of ns, in the order of ns and,
\* for one node, in the order of its neighbours.
ArcList(ns, f) ==
    IF ns = <<>> THEN <<>>
    ELSE [j \in 1..Len(f[Head(ns)]) |-> <<Head(ns), f[Head(ns)][j]>>]
             \o ArcList(Tail(ns), f)

\* C20: longestPathDAG checks its topologicalOrder in a fixed order and
\* throws a different error for each check: an undefined entry anywhere
\* in the order, also when later checks would fail too; then a number of
\* entries that differs from the number of nodes; then, edge by edge, an
\* end of the edge that the order lacks, and then a source that is not
\* before the target; it returns a result only when every check passes.
C20_ValidationOrder ==
    Asked("longestPathDAG") =>
        LET ns == query[1].nodes
            order == query[1].topologicalOrder
            arcs == ArcList(ns, lookup)
            Missing(a) == a[1] \notin Range(order) \/ a[2] \notin Range(order)
            Backward(a) == LastPos(order, a[1]) >= LastPos(order, a[2])
            bad == {k \in 1..Len(arcs) :
                       Missing(arcs[k]) \/ Backward(arcs[k])}
            first == CHOOSE k \in bad : \A m \in bad : k <= m
            expected ==
                IF undefined \in Range(order) THEN UndefinedEntry
                ELSE IF Cardinality(Range(order)) # Len(ns)
                THEN NotEveryNodeOnce
                ELSE IF bad = {} THEN "ok"
                ELSE IF Missing(arcs[first]) THEN MissingNodes
                ELSE EdgeGoesBackward
        IN  /\ expected # "ok" => answer[1].status = expected
            /\ answer[1].status = "ok" => expected = "ok"
            /\ answer[1].value # None <=> answer[1].status = "ok"
            /\ Cardinality({UndefinedEntry, NotEveryNodeOnce, MissingNodes,
                            EdgeGoesBackward, "ok"}) = 5

\* longestPathDAG has reported the undefined entry of an order that also
\* has too few entries and puts B before A against the edge A -> B.
C20_Witness ==
    /\ Asked("longestPathDAG")
    /\ query[1].nodes = <<"A", "B", "C">>
    /\ query[1].topologicalOrder = <<"B", "A", undefined>>
    /\ lookup["A"] = <<"B">>
    /\ answer[1].status = UndefinedEntry

\* C21 as stated: longestPathDAG fails whenever topologicalOrder does not
\* hold every node of the node list exactly once: a node of the list is
\* left out, an entry is repeated, or an entry is no node of the list.
C21_FailsUnlessEveryNodeOnce ==
    Asked("longestPathDAG") =>
        LET ns == query[1].nodes
            order == query[1].topologicalOrder
        IN  Range(order) # Range(ns) \/ ~NoRepeats(order)
                => answer[1].status \notin {"ok", "no return"}

\* order is a topological order of the nodes ns for the lookup f: it holds
\* every node of ns once and nothing else, and every edge that leaves a
\* node of ns leads to a later entry.
IsValidOrder(f, ns, order) ==
    /\ Range(order) = Range(ns)
    /\ NoRepeats(order)
    /\ \A u \in Range(ns) : \A v \in Range(f[u]) :
          v \in Range(order) /\ LastPos(order, u) < LastPos(order, v)

\* The largest number of edges of a walk of f that starts at a node of S
\* and ends at n; -1 if there is none.
DistanceTo(f, S, n) ==
    LET ks == {k \in 0..Cardinality(NodeIds) :
                  \E p \in WalksOf(f, k) : p[1] \in S /\ p[k + 1] = n}
    IN  IF ks = {} THEN -1 ELSE CHOOSE k \in ks : \A m \in ks : m <= k

\* C22: for a topological order of all the nodes of the node list,
\* longestPathDAG returns as length the largest number of edges of a path
\* of the graph, and a path of length + 1 nodes in which every next node
\* is a successor of the one before it and which ends at the first node
\* of the order that has the largest distance; without edges the length
\* is 0 and the path is the first node of the order, or empty for an empty
\* order.
C22_LongestPath ==
    Asked("longestPathDAG")
        /\ IsValidOrder(lookup, query[1].nodes, query[1].topologicalOrder) =>
        LET ns == query[1].nodes
            order == query[1].topologicalOrder
            far(n) == DistanceTo(lookup, Range(ns), n)
            longest == IF ns = <<>> THEN 0
                       ELSE CHOOSE k \in {far(n) : n \in Range(ns)} :
                                \A n \in Range(ns) : far(n) <= k
        IN  /\ answer[1].status = "ok"
            /\ LET r == answer[1].value[1] IN
               /\ r.length = longest
               /\ order = <<>> => r.path = <<>>
               /\ order # <<>> =>
                     /\ Len(r.path) = r.length + 1
                     /\ IsWalk(lookup, r.path, r.path[1], r.path[Len(r.path)])
                     /\ far(r.path[Len(r.path)]) = longest
                     /\ \A i \in 1..Len(order) :
                           far(order[i]) = longest =>
                               LastPos(order, r.path[Len(r.path)]) <= i
               /\ (\A n \in Range(ns) : lookup[n] = <<>>) /\ order # <<>> =>
                     r.length = 0 /\ r.path = <<order[1]>>

\* B and C are both one edge from A; longestPathDAG has returned the path
\* to C, which the order names first.
C22_Witness ==
    /\ Asked("longestPathDAG")
    /\ query[1].nodes = <<"A", "B", "C">>
    /\ query[1].topologicalOrder = <<"A", "C", "B">>
    /\ lookup["A"] = <<"B", "C">>
    /\ answer[1].status = "ok"
    /\ answer[1].value[1] = [length |-> 1, path |-> <<"A", "C">>]

-----------------------------------------------------------------------------
(* isBipartite *)

\* C23: for a node list and a lookup whose successors are all in the list,
\* isBipartite returns isBipartite = true exactly when the graph, taken as
\* undirected, has no self-loop and can be coloured with two colours; on
\* true the two returned sets are disjoint, hold every node of the list
\* between them, and no edge joins two nodes of one set; on false no
\* partition is returned.
C23_Bipartite ==
    Asked("isBipartite")
        /\ (\A u \in Range(query[1].nodes) :
               Range(lookup[u]) \subseteq Range(query[1].nodes)) =>
        LET listed == Range(query[1].nodes)
            Proper(side) == \A u \in listed : \A v \in Range(lookup[u]) :
                                side[u] # side[v]
            twoColourable == \E side \in [listed -> {0, 1}] : Proper(side)
        IN  /\ answer[1].status = "ok"
            /\ LET r == answer[1].value[1] IN
               /\ r.isBipartite <=> twoColourable
               /\ ~r.isBipartite => r.partition = None
               /\ r.isBipartite =>
                     /\ r.partition # None
                     /\ LET left == Range(r.partition[1][1])
                            right == Range(r.partition[1][2])
                        IN  /\ left \cap right = {}
                            /\ left \cup right = listed
                            /\ \A u \in listed : \A v \in Range(lookup[u]) :
                                  u \in left <=> v \in right

\* isBipartite has split the chain A -> B -> C into A, C and B.
C23_Witness ==
    /\ Asked("isBipartite")
    /\ query[1].nodes = <<"A", "B", "C">>
    /\ lookup["A"] = <<"B">> /\ lookup["B"] = <<"C">>
    /\ answer[1].status = "ok"
    /\ answer[1].value[1].partition = Some(<< <<"A", "C">>, <<"B">> >>)

\* C30 as stated: isBipartite returns for every node list and every
\* lookup, also for a lookup that returns a node outside the node list.
C30_BipartiteIsTotal ==
    Asked("isBipartite") =>
        /\ answer[1].status = "ok"
        /\ answer[1].value # None
        /\ answer[1].value[1].isBipartite \in BOOLEAN

Traversal == classifyFrom(this, ClassifyStart, 1)

\* The edge discovered the node it leads to: the node's parent is the edge's
\* source and the edge is the first one stored from that source to it.
Discovers(t, edge) ==
    /\ edge.from # edge.to
    /\ t.parent[edge.to] = Some(edge.from)
    /\ edge.id = getEdgeIdsBetween(this, edge.from, edge.to)[1]

\* v was on the traversal stack while the successors of u were examined:
\* v is u or was discovered before u and finished after it.
OnStackAt(t, u, v) == t.disc[v] <= t.disc[u] /\ t.fini[u] <= t.fini[v]

\* The type C25 gives an edge.
EdgeTypeOf(t, edge) ==
    IF Discovers(t, edge) THEN "tree"
    ELSE IF OnStackAt(t, edge.from, edge.to) THEN "back"
    ELSE IF /\ t.disc[edge.from] < t.disc[edge.to]
            /\ t.fini[edge.to] < t.fini[edge.from] THEN "forward"
    ELSE "cross"

\* C25: classifyEdges() returns a Map whose keys are the ids of the stored
\* edges; the first edge that discovers an unvisited node is 'tree', any
\* other edge u -> v, a further parallel edge or a self-loop included, is
\* 'back' if v was on the traversal stack when it was examined, else
\* 'forward' if u was discovered before v and v finished before u, else
\* 'cross'.
C25_EdgeTypes ==
    last.op = "classifyEdges" =>
        LET type == result[1]
            t == Traversal
        IN  /\ DOMAIN type = Ids(edges)
            /\ \A i \in 1..Len(edges) :
                   type[edges[i].id] = EdgeTypeOf(t, edges[i])

\* classifyEdges() has returned a Map holding a tree edge and a cross edge.
C25_Witness ==
    /\ last.op = "classifyEdges"
    /\ \E a, b \in DOMAIN result[1] :
           result[1][a] = "tree" /\ result[1][b] = "cross"

\* How often the edge is in the bucket.
Count(bucket, edge) == Cardinality({i \in 1..Len(bucket) : bucket[i] = edge})

\* 1 for a true condition and 0 for a false one.
Once(condition) == IF condition THEN 1 ELSE 0

\* The node is a member of the component.
Holds(component, n) == n \in Range(component.members)

\* C26: buildCondensationGraph() puts a stored edge whose endpoints are in
\* one component once into that component's internalEdges and into no entry
\* or exit list, and once into its feedbackEdges exactly when
\* classifyEdges() types the edge 'back'; it puts an edge between two
\* components once into the source component's exitEdges and once into the
\* target component's entryEdges and nowhere else; the buckets hold stored
\* edges only, and every one of several parallel edges is kept.
C26_EdgeRouting ==
    last.op = "buildCondensationGraph" =>
        LET components == result[1].components
            type == classifyEdges(this)
        IN  /\ \A i \in 1..Len(edges) : \A c \in 1..Len(components) :
                   LET edge == edges[i]
                       comp == components[c]
                       from == Holds(comp, edge.from)
                       to == Holds(comp, edge.to)
                   IN  /\ Count(comp.internalEdges, edge) = Once(from /\ to)
                       /\ Count(comp.feedbackEdges, edge) =
                              Once(from /\ to /\ type[edge.id] = "back")
                       /\ Count(comp.exitEdges, edge) = Once(from /\ ~to)
                       /\ Count(comp.entryEdges, edge) = Once(to /\ ~from)
            /\ \A c \in 1..Len(components) :
                   Range(components[c].internalEdges)
                     \cup Range(components[c].feedbackEdges)
                     \cup Range(components[c].exitEdges)
                     \cup Range(components[c].entryEdges) \subseteq Range(edges)

\* buildCondensationGraph() has returned a component with two parallel exit
\* edges.
C26_Witness ==
    /\ last.op = "buildCondensationGraph"
    /\ \E c \in 1..Len(result[1].components) :
           LET exit == result[1].components[c].exitEdges
           IN  /\ Len(exit) = 2
               /\ exit[1].from = exit[2].from
               /\ exit[1].to = exit[2].to
               /\ exit[1].id # exit[2].id

\* A walk of one or more edges leads from the node back to it.
OnCycle(n) == HasPath(SuccessorsOf(this), n, n)

\* The nodes that lie on a cycle with n.
CycleClass(n) ==
    {m \in Range(nodes) : /\ HasPath(SuccessorsOf(this), n, m)
                          /\ HasPath(SuccessorsOf(this), m, n)}

\* The ids of the edges a classification types 'back'.
BackEdges(type) == {id \in DOMAIN type : type[id] = "back"}

\* C27: classifyEdges() types some edge 'back' exactly when the graph has
\* a cycle, and exactly when topologicalSort() returns null; for a graph
\* without a cycle no edge is 'back' and findCycles() returns an empty list.
C27_BackEdgeIffCycle ==
    last.op = "classifyEdges" =>
        LET hasBack == BackEdges(result[1]) # {}
            hasCycle == \E n \in Range(nodes) : OnCycle(n)
        IN  /\ hasBack <=> hasCycle
            /\ hasBack <=> topologicalSort(this) = None
            /\ ~hasCycle => findCycles(this, NoPrecomputed) = <<>>

\* classifyEdges() has returned a 'back' edge for a cycle through two nodes.
C27_Witness ==
    /\ last.op = "classifyEdges"
    /\ BackEdges(result[1]) # {}
    /\ hasEdge(this, "A", "B")
    /\ hasEdge(this, "B", "A")

\* C28: findCycles() returns one Cycle for every strongly connected
\* component that has a cycle and no other; the backEdges of every Cycle
\* are not empty and are among its edges; every edge classifyEdges() types
\* 'back' is in the backEdges of exactly one Cycle.
C28_OneCyclePerComponent ==
    last.op = "findCycles" =>
        LET cycles == result[1]
            classes == {CycleClass(n) : n \in {m \in Range(nodes) : OnCycle(m)}}
        IN  /\ Len(cycles) = Cardinality(classes)
            /\ {Range(cycles[i].nodes) : i \in 1..Len(cycles)} = classes
            /\ \A i \in 1..Len(cycles) :
                   /\ cycles[i].backEdges # <<>>
                   /\ Range(cycles[i].backEdges) \subseteq Range(cycles[i].edges)
            /\ \A id \in BackEdges(classifyEdges(this)) :
                   Cardinality({i \in 1..Len(cycles) :
                                   id \in Range(cycles[i].backEdges)}) = 1

\* findCycles() has returned two Cycles.
C28_Witness ==
    /\ last.op = "findCycles"
    /\ Len(result[1]) = 2

\* The errors buildCondensationGraph throws for precomputed data that does
\* not fit the graph.
ContractViolations ==
    {"buildCondensationGraph: encountered edge missing component mapping",
     "buildCondensationGraph: component lookup failed"}

\* C29: a buildCondensationGraph call that is given the SCC list
\* findSCCs() returned on an earlier state of the engine, addNode and
\* addEdge calls having changed it since, fails with the
\* contract-violation error or returns a topologicalOrder that holds the
\* id of every component exactly once.
C29_StaleListFailsOrOrdersAll ==
    (/\ last.op = "buildCondensationGraph"
     /\ query # None
     /\ query[1].on # this) =>
        \/ last.status \in ContractViolations
        \/ /\ last.status = "ok"
           /\ NoRepeats(result[1].topologicalOrder)
           /\ Range(result[1].topologicalOrder) =
                  {result[1].components[i].id :
                      i \in 1..Len(result[1].components)}

=============================================================================
